---------------------------- MODULE Spec2Model ----------------------------
(***************************************************************************)
(* Investec -> Actual Budget sync server, v6.3.1 (multi-profile):          *)
(* the coordinator process (admission, cron, worker spawning), the worker  *)
(* process (ledger session, account loop, import, push) and the pure       *)
(* transaction transformer.                                                *)
(*                                                                         *)
(* Strings of the program are sequences of one-character strings, so that  *)
(* concatenation, replace(), substring() and split() are computed as the   *)
(* code computes them.  An absent (undefined / null / '') string is <<>>.  *)
(***************************************************************************)
EXTENDS Integers, Sequences, FiniteSets, TLC

VARIABLES
    \* ---- coordinator (main server process) ----
    config,              \* config.json: the profile of each profile id
    cronTasks,           \* ids of the profiles that hold a cron task
    processingProfiles,  \* Set of the profile ids being synced
    workers,             \* the process table: the forked worker processes
    lastTrigger,         \* what the trigger handler of this step answered / logged
    logs,                \* let logs = []: the log buffer GET /api/logs returns
    ipc,                 \* the log messages a worker has sent and addLog has not stored yet
    \* ---- one profile's sync executions, step by step ----
    store,               \* config.json and categories.json: the profile, the tree
    env,                 \* WORKER_ACTION and WORKER_PAYLOAD of the forked worker
    categoryTree,        \* payload.categories: the category tree of the profile's run
    investec,            \* provider API: the accounts and their transactions
    serverBudget,        \* the budget file on the Actual server
    localBudget,         \* the copy in the worker's cache directory
    ex,                  \* the worker's execution state (its local variables)
    prevRun,             \* how the previous execution of the profile ended
    \* ---- transformer ----
    rawTxs,              \* the provider transactions handed to .map()
    actualTxs,           \* the mapped ledger transactions (<<>> before)
    importCalls          \* the lists handed to actual.importTransactions, call by call

logVars   == <<logs, ipc>>
coordVars == <<config, cronTasks, processingProfiles, workers, lastTrigger, logVars>>
txVars    == <<rawTxs, actualTxs, importCalls>>
execVars  == <<store, env, categoryTree, investec, serverBudget, localBudget, ex, prevRun>>
vars      == <<coordVars, txVars, execVars, logVars>>

(***************************************************************************)
(*                     PART A: the transaction transformer                 *)
(***************************************************************************)

Min(a, b) == IF a < b THEN a ELSE b

Abs(n) == IF n < 0 THEN -n ELSE n

Digit(d) == <<"0", "1", "2", "3", "4", "5", "6", "7", "8", "9">>[d + 1]

\* `${n}` for a non-negative integer n: its decimal digits.
RECURSIVE NumStr(_)
NumStr(n) == IF n < 10 THEN <<Digit(n)>> ELSE NumStr(n \div 10) \o <<Digit(n % 10)>>

\* The characters /[a-z0-9]/i keeps.
AlnumChars ==
    {"a","b","c","d","e","f","g","h","i","j","k","l","m","n","o","p","q","r","s",
     "t","u","v","w","x","y","z","A","B","C","D","E","F","G","H","I","J","K","L",
     "M","N","O","P","Q","R","S","T","U","V","W","X","Y","Z","0","1","2","3","4",
     "5","6","7","8","9"}

\* The length substring(0, 30) cuts the sanitized description to.
SAFE_DESC_LEN == 30

\* s.substring(0, n)
Substring0(s, n) == SubSeq(s, 1, Min(Len(s), n))

\* s.replace(/[^a-z0-9]/gi, '')
IsAlnum(c) == c \in AlnumChars
StripNonAlnum(s) == SelectSeq(s, IsAlnum)

\* s.includes('T')
IncludesT(s) == \E i \in 1..Len(s) : s[i] = "T"

\* s.split('T')[0]: what precedes the first 'T' (all of s when there is none)
RECURSIVE BeforeT(_)
BeforeT(s) ==
    IF s = <<>> \/ Head(s) = "T" THEN <<>> ELSE <<Head(s)>> \o BeforeT(Tail(s))

\* a || b on strings: the first truthy (non-empty) operand, else the last
OrElse(a, b) == IF a # <<>> THEN a ELSE b

UnknownPayee == <<"U","n","k","n","o","w","n"," ","P","a","y","e","e">>
NoDateStr    == <<"n","o","d","a","t","e">>
TypePrefix   == <<"T","y","p","e",":"," ">>
RefPrefix    == <<"R","e","f",":"," ">>
NotesSep     == <<" ","|"," ">>
Colon        == <<":">>

\* The magnitudes ending in half a cent (in thousandths) whose product with 100
\* falls just short of the half in IEEE doubles:
\* 0.145 * 100 = 14.499999999999998 and 1.005 * 100 = 100.49999999999999.
\* (For every other amount used here the product is exact or off by less than
\* what Math.round can see.)
ShortTies == {145, 1005}

\* t.amount * 100, in hundredths of a cent; t.amount is carried in thousandths.
Times100(a) ==
    IF Abs(a) \in ShortTies THEN (IF a > 0 THEN a * 10 - 1 ELSE a * 10 + 1) ELSE a * 10

\* Math.round(t.amount * 100): Math.round rounds a half towards +infinity.
RoundedCents(t) == (Times100(t.amount) + 50) \div 100

\* A variant of the sign rule that keeps the sign the provider sent.
SignedAmountKeepsSign(t) ==
    IF t.type = "DEBIT" THEN -RoundedCents(t) ELSE RoundedCents(t)

\* let amount = Math.round(t.amount * 100);
\* if (t.type === 'DEBIT') amount = -Math.abs(amount); else amount = Math.abs(amount);
SignedAmount(t) ==
    IF t.type = "DEBIT" THEN -Abs(RoundedCents(t)) ELSE Abs(RoundedCents(t))

\* A variant of the date that keeps the time of day.
TxDateKeepsTime(t) ==
    LET d0 == OrElse(OrElse(t.transactionDate, t.postingDate), t.actionDate)
    IN  IF d0 = <<>> THEN t.valueDate ELSE d0

\* let date = t.transactionDate || t.postingDate || t.actionDate;
\* if (!date) date = t.valueDate;
\* if (date && date.includes('T')) date = date.split('T')[0];
TxDate(t) ==
    LET d0 == OrElse(OrElse(t.transactionDate, t.postingDate), t.actionDate)
        d1 == IF d0 = <<>> THEN t.valueDate ELSE d0
    IN  IF d1 # <<>> /\ IncludesT(d1) THEN BeforeT(d1) ELSE d1

\* notesParts.join(' | ')
TxNotes(t) ==
    LET p1 == IF t.transactionType # <<>> THEN <<TypePrefix \o t.transactionType>> ELSE <<>>
        p2 == IF t.cardNumber # <<>> THEN <<RefPrefix \o t.cardNumber>> ELSE <<>>
        parts == p1 \o p2
    IN  IF Len(parts) = 0 THEN <<>>
        ELSE IF Len(parts) = 1 THEN parts[1]
        ELSE parts[1] \o NotesSep \o parts[2]

\* const payee = t.description || 'Unknown Payee';
TxPayee(t) == OrElse(t.description, UnknownPayee)

\* const safeDesc = payee.replace(/[^a-z0-9]/gi, '').substring(0, 30);
SafeDesc(t) == Substring0(StripNonAlnum(TxPayee(t)), SAFE_DESC_LEN)

\* A variant of the order suffix that always falls back on the amount.
OrderSuffixAmountOnly(t) == Colon \o NumStr(Abs(SignedAmount(t)))

\* const orderSuffix = (t.postedOrder !== undefined && t.postedOrder !== null)
\*     ? `:${t.postedOrder}` : `:${Math.abs(amount)}`;
OrderSuffix(t) ==
    IF t.postedOrder.has THEN Colon \o NumStr(t.postedOrder.val)
    ELSE Colon \o NumStr(Abs(SignedAmount(t)))

\* A variant of the key that also carries the notes.
ImportIdWithNotes(t) ==
    t.accountId \o Colon \o OrElse(TxDate(t), NoDateStr) \o Colon \o SafeDesc(t)
        \o OrderSuffix(t) \o TxNotes(t)

\* A variant of the key with the order suffix put before the date.
ImportIdOrdinalFirst(t) ==
    t.accountId \o OrderSuffix(t) \o Colon \o OrElse(TxDate(t), NoDateStr) \o Colon
        \o SafeDesc(t)

\* const idDate = date || 'nodate';
\* const importId = `${t.accountId}:${idDate}:${safeDesc}${orderSuffix}`;
ImportId(t) ==
    t.accountId \o Colon \o OrElse(TxDate(t), NoDateStr) \o Colon \o SafeDesc(t)
        \o OrderSuffix(t)

transformTransaction(t) ==
    [ date           |-> TxDate(t),
      amount         |-> SignedAmount(t),
      payee_name     |-> TxPayee(t),
      imported_payee |-> TxPayee(t),
      notes          |-> TxNotes(t),
      imported_id    |-> ImportId(t),
      cleared        |-> TRUE ]


(***************************************************************************)
(* Inputs of the transformer: provider transactions (InvestecTransaction). *)
(***************************************************************************)

Date0301  == <<"2","0","2","4","-","0","3","-","0","1">>
Date0301T == Date0301 \o <<"T","1","0",":","0","0">>
Date0302  == <<"2","0","2","4","-","0","3","-","0","2">>

AccountIdA == <<"A","C","C","1">>

\* A description longer than the 30 characters the key keeps, ending in c.
LongDescription(c) == [i \in 1..SAFE_DESC_LEN |-> "x"] \o <<c>>

Descriptions == { <<>>, <<"W","o","o","l","i","e","s"," ","#","1">>, LongDescription("y") }

PostedOrderVals == {0, 7, 17}

NoPostedOrder == [has |-> FALSE, val |-> 0]

PostedOrders == {NoPostedOrder} \cup {[has |-> TRUE, val |-> n] : n \in PostedOrderVals}

\* t.amount, in thousandths: 150.00 and 1.005
Amounts == {150000, 1005}

TransactionTypes == { <<>>, <<"F","e","e","s">> }
CardNumbers      == { <<>>, <<"4","0","2","1">> }
RunningBalances  == {0, 5}
Statuses         == {"POSTED", "PENDING"}

\* Transactions with the non-identifying fields at one fixed value.
BaseTxs ==
    [ accountId       : {AccountIdA},
      amount          : Amounts,
      type            : {"DEBIT", "CREDIT"},
      transactionDate : {<<>>, Date0301T},
      postingDate     : {<<>>, Date0301},
      actionDate      : {<<>>},
      valueDate       : {<<>>, Date0302},
      description     : Descriptions,
      postedOrder     : PostedOrders,
      transactionType : {<<>>},
      cardNumber      : {<<>>},
      runningBalance  : {0},
      status          : {"POSTED"} ]

\* The transactions of the same account and day that t is compared with: any
\* non-identifying fields, any ordinal, any amount, its or another description.
Variants(t) ==
    { [t EXCEPT !.transactionType = tt, !.cardNumber = cn, !.runningBalance = rb,
                !.status = st, !.postedOrder = po, !.description = de, !.amount = am] :
        tt \in TransactionTypes, cn \in CardNumbers, rb \in RunningBalances,
        st \in Statuses, po \in PostedOrders, am \in Amounts,
        de \in {t.description, <<"W","o","o","l","i","e","s">>} }

(***************************************************************************)
(*        PART C: one worker execution (action sync), step by step         *)
(*                                                                         *)
(* One profile; its executions follow one another (admission keeps them    *)
(* apart).  The provider's data stays the same from run to run.  The       *)
(* ledger library is taken to de-duplicate by imported_id: a transaction   *)
(* whose imported_id the account already holds is not added again (it is   *)
(* updated when its fields differ).                                        *)
(***************************************************************************)

UpperChars == <<"A","B","C","D","E","F","G","H","I","J","K","L","M","N","O","P","Q","R","S","T","U","V","W","X","Y","Z">>
LowerChars == <<"a","b","c","d","e","f","g","h","i","j","k","l","m","n","o","p","q","r","s","t","u","v","w","x","y","z">>

LowerChar(c) ==
    IF \E k \in 1..26 : UpperChars[k] = c
    THEN LowerChars[CHOOSE k \in 1..26 : UpperChars[k] = c]
    ELSE c

\* s.toLowerCase()
ToLower(s) == [k \in 1..Len(s) |-> LowerChar(s[k])]

\* s.trim()
RECURSIVE TrimLeft(_)
TrimLeft(s) == IF s # <<>> /\ Head(s) = " " THEN TrimLeft(Tail(s)) ELSE s
RECURSIVE TrimRight(_)
TrimRight(s) ==
    IF s # <<>> /\ s[Len(s)] = " " THEN TrimRight(SubSeq(s, 1, Len(s) - 1)) ELSE s
Trim(s) == TrimRight(TrimLeft(s))

\* s.slice(-n)
SliceLast(s, n) == IF Len(s) <= n THEN s ELSE SubSeq(s, Len(s) - n + 1, Len(s))

\* s.includes(sub)
Includes(s, sub) ==
    \E k \in 0..(Len(s) - Len(sub)) : SubSeq(s, k + 1, k + Len(sub)) = sub

CreditWord == <<"c","r","e","d","i","t">>

\* the digits of the account number the synthesized name keeps
LAST_DIGITS == 4

\* A variant of the naming that takes every non-empty reference name.
UniqueNameAnyReference(invAcc) ==
    Trim(IF invAcc.referenceName # <<>>
         THEN invAcc.referenceName
         ELSE invAcc.productName \o <<" ">> \o SliceLast(invAcc.accountNumber, LAST_DIGITS))

\* let uniqueName = `${invAcc.productName} ${invAcc.accountNumber.slice(-4)}`;
\* if (invAcc.referenceName && invAcc.referenceName.trim() !== '' &&
\*     invAcc.referenceName.trim() !== invAcc.accountName.trim())
\*     uniqueName = invAcc.referenceName;
\* uniqueName = uniqueName.trim();
UniqueName(invAcc) ==
    Trim(IF /\ invAcc.referenceName # <<>>
            /\ Trim(invAcc.referenceName) # <<>>
            /\ Trim(invAcc.referenceName) # Trim(invAcc.accountName)
         THEN invAcc.referenceName
         ELSE invAcc.productName \o <<" ">> \o SliceLast(invAcc.accountNumber, LAST_DIGITS))

\* A variant of the type rule that looks for "credit" in the case as sent.
AccTypeCaseSensitive(invAcc) ==
    IF Includes(invAcc.productName, CreditWord) THEN "credit" ELSE "checking"

\* let accType = 'checking'; if (prodNameLower.includes('credit')) accType = 'credit';
AccType(invAcc) ==
    IF Includes(ToLower(invAcc.productName), CreditWord) THEN "credit" ELSE "checking"

\* A variant of the match that also takes a ledger name containing the name.
NameMatchesOrContains(a, uniqueName) ==
    \/ Trim(ToLower(a.name)) = ToLower(uniqueName)
    \/ Includes(ToLower(a.name), ToLower(uniqueName))

\* a => a.name.toLowerCase().trim() === uniqueName.toLowerCase()
NameMatches(a, uniqueName) == Trim(ToLower(a.name)) = ToLower(uniqueName)

\* actualAccounts.find(pred): the index of the first match, 0 when there is none
FindAccount(accounts, uniqueName) ==
    IF \E k \in 1..Len(accounts) : NameMatches(accounts[k], uniqueName)
    THEN CHOOSE k \in 1..Len(accounts) :
            /\ NameMatches(accounts[k], uniqueName)
            /\ \A j \in 1..(k - 1) : ~NameMatches(accounts[j], uniqueName)
    ELSE 0

\* the id actual.createAccount gives the new account
NewAccountId(accounts) == Len(accounts) + 1

\* actual.importTransactions(accountId, txs), one transaction after the other:
\* an imported_id the account holds already is not added again, and counts as
\* updated when the stored fields differ.
RECURSIVE ImportInto(_, _, _, _, _)
ImportInto(txs, accountId, batch, added, updated) ==
    IF batch = <<>> THEN [txs |-> txs, added |-> added, updated |-> updated]
    ELSE LET t    == Head(batch)
             same == {x \in txs : x.account = accountId /\ x.tx.imported_id = t.imported_id}
         IN  IF same = {}
             THEN ImportInto(txs \cup {[account |-> accountId, tx |-> t]}, accountId,
                             Tail(batch), added + 1, updated)
             ELSE IF \E x \in same : x.tx = t
             THEN ImportInto(txs, accountId, Tail(batch), added, updated)
             ELSE ImportInto((txs \ same) \cup {[account |-> accountId, tx |-> t]},
                             accountId, Tail(batch), added, updated + 1)

ImportTransactions(txs, accountId, batch) == ImportInto(txs, accountId, batch, 0, 0)

\* rawTxs.map(transformTransaction).filter(t => t.date)
HasDate(t) == t.date # <<>>
\* A variant of the mapping that keeps the undated transactions.
TransformAllUnfiltered(raw) == [k \in 1..Len(raw) |-> transformTransaction(raw[k])]

TransformAll(raw) == SelectSeq([k \in 1..Len(raw) |-> transformTransaction(raw[k])], HasDate)

\* (txData?.data?.transactions || []).map(t => ({ ...t, accountId: invAcc.accountId }))
WithAccountId(raw, accountId) == [k \in 1..Len(raw) |-> [raw[k] EXCEPT !.accountId = accountId]]

(***************************************************************************)
(* syncCategories(categoryTree).  The tree is the sequence of its entries  *)
(* (Object.entries), each a group name with its list of category names.    *)
(* The budget holds its category groups [id, name] and its categories      *)
(* [id, name, group_id].  A create call either returns or throws; the      *)
(* names whose create call throws are given by failing, the group names    *)
(* whose re-fetch after the creation throws by stale.                      *)
(***************************************************************************)

\* the calls that write categories, as issued (caught: the try block around the
\* call ended in its catch, "Failed to create ..." was logged)
CreateGroupOp(name, caught) ==
    [op |-> "createCategoryGroup", name |-> name, group_id |-> 0, caught |-> caught]
CreateCategoryOp(name, gid, caught) ==
    [op |-> "createCategory", name |-> name, group_id |-> gid, caught |-> caught]

\* A variant of the lookup that takes a category of that name in any group.
CategoryExistsAnyGroup(existingCategories, gid, catName) ==
    \E k \in 1..Len(existingCategories) : existingCategories[k].name = catName

\* existingCategories.find(c => c.group_id === group.id && c.name === catName)
CategoryExists(existingCategories, gid, catName) ==
    \E k \in 1..Len(existingCategories) :
        existingCategories[k].group_id = gid /\ existingCategories[k].name = catName

\* existingGroups.find(g => g.name === groupName): its index, 0 without one
FindGroup(existingGroups, groupName) ==
    IF \E k \in 1..Len(existingGroups) : existingGroups[k].name = groupName
    THEN CHOOSE k \in 1..Len(existingGroups) :
            /\ existingGroups[k].name = groupName
            /\ \A j \in 1..(k - 1) : existingGroups[j].name # groupName
    ELSE 0

\* A variant of the loop over the categories that moves a category of that
\* name found in another group into the group, instead of creating one.
RECURSIVE SyncCategoryNamesMoving(_, _, _, _, _)
SyncCategoryNamesMoving(st, gid, categoryNames, existingCategories, failing) ==
    IF categoryNames = <<>> THEN st
    ELSE LET catName == Head(categoryNames)
             next    ==
                IF CategoryExists(st.cats, gid, catName) THEN st
                ELSE IF \E k \in 1..Len(st.cats) : st.cats[k].name = catName
                THEN [st EXCEPT
                        !.cats = [k \in 1..Len(st.cats) |->
                                    IF st.cats[k].name = catName
                                    THEN [st.cats[k] EXCEPT !.group_id = gid] ELSE st.cats[k]],
                        !.ops = Append(st.ops, [op |-> "updateCategory", name |-> catName,
                                                group_id |-> gid, caught |-> FALSE])]
                ELSE [st EXCEPT
                        !.cats = Append(st.cats, [id |-> Len(st.cats) + 1, name |-> catName,
                                                  group_id |-> gid]),
                        !.ops = Append(st.ops, CreateCategoryOp(catName, gid, FALSE))]
         IN  SyncCategoryNamesMoving(next, gid, Tail(categoryNames), existingCategories, failing)

\* for (const catName of categoryNames) { ... }   st: [groups, cats, ops]
RECURSIVE SyncCategoryNames(_, _, _, _, _)
SyncCategoryNames(st, gid, categoryNames, existingCategories, failing) ==
    IF categoryNames = <<>> THEN st
    ELSE LET catName == Head(categoryNames)
             next    ==
                IF CategoryExists(existingCategories, gid, catName) THEN st
                ELSE IF catName \in failing
                THEN [st EXCEPT !.ops = Append(st.ops, CreateCategoryOp(catName, gid, TRUE))]
                ELSE [st EXCEPT
                        !.cats = Append(st.cats, [id |-> Len(st.cats) + 1, name |-> catName,
                                                  group_id |-> gid]),
                        !.ops = Append(st.ops, CreateCategoryOp(catName, gid, FALSE))]
         IN  SyncCategoryNames(next, gid, Tail(categoryNames), existingCategories, failing)

\* A variant of the loop over the groups that gives up at the first failure.
RECURSIVE SyncGroupsStopAtFailure(_, _, _, _, _, _)
SyncGroupsStopAtFailure(st, entries, existingGroups, existingCategories, failing, stale) ==
    IF entries = <<>> THEN st
    ELSE LET e     == Head(entries)
             k     == FindGroup(existingGroups, e.name)
             newId == Len(st.groups) + 1
             made  == [st EXCEPT !.groups = Append(st.groups, [id |-> newId, name |-> e.name]),
                                 !.ops = Append(st.ops, CreateGroupOp(e.name, FALSE))]
         IN  IF k # 0
             THEN LET done == SyncCategoryNames(st, existingGroups[k].id, e.cats,
                                                existingCategories, failing)
                  IN  IF \E i \in 1..Len(done.ops) : done.ops[i].caught THEN done
                      ELSE SyncGroupsStopAtFailure(done, Tail(entries), existingGroups,
                                                   existingCategories, failing, stale)
             ELSE IF e.name \in failing
             THEN [st EXCEPT !.ops = Append(st.ops, CreateGroupOp(e.name, TRUE))]
             ELSE IF e.name \in stale
             THEN [made EXCEPT !.ops = Append(st.ops, CreateGroupOp(e.name, TRUE))]
             ELSE LET done == SyncCategoryNames(made, newId, e.cats, existingCategories, failing)
                  IN  IF \E i \in 1..Len(done.ops) : done.ops[i].caught THEN done
                      ELSE SyncGroupsStopAtFailure(done, Tail(entries), made.groups,
                                                   existingCategories, failing, stale)

\* for (const [groupName, categoryNames] of Object.entries(categoryTree)) { ... }
RECURSIVE SyncGroups(_, _, _, _, _, _)
SyncGroups(st, entries, existingGroups, existingCategories, failing, stale) ==
    IF entries = <<>> THEN st
    ELSE LET e     == Head(entries)
             k     == FindGroup(existingGroups, e.name)
             newId == Len(st.groups) + 1
             made  == [st EXCEPT !.groups = Append(st.groups, [id |-> newId, name |-> e.name]),
                                 !.ops = Append(st.ops, CreateGroupOp(e.name, FALSE))]
         IN  IF k # 0
             THEN SyncGroups(SyncCategoryNames(st, existingGroups[k].id, e.cats,
                                               existingCategories, failing),
                             Tail(entries), existingGroups, existingCategories, failing, stale)
             ELSE IF e.name \in failing
             THEN \* createCategoryGroup threw: logged, continue
                  SyncGroups([st EXCEPT !.ops = Append(st.ops, CreateGroupOp(e.name, TRUE))],
                             Tail(entries), existingGroups, existingCategories, failing, stale)
             ELSE IF e.name \in stale
             THEN \* the group was created, getCategoryGroups() behind it threw: continue
                  SyncGroups([made EXCEPT !.ops = Append(st.ops, CreateGroupOp(e.name, TRUE))],
                             Tail(entries), existingGroups, existingCategories, failing, stale)
             ELSE SyncGroups(SyncCategoryNames(made, newId, e.cats, existingCategories, failing),
                             Tail(entries), made.groups, existingCategories, failing, stale)

\* syncCategories(categoryTree) on a budget: the groups and categories after it
\* and the write calls it issued
syncCategories(budget, tree, failing, stale) ==
    SyncGroups([groups |-> budget.groups, cats |-> budget.cats, ops |-> <<>>],
               tree, budget.groups, budget.cats, failing, stale)

\* the names of a tree: its groups, and its groups and categories
GroupNames(tree) == {tree[i].name : i \in 1..Len(tree)}
NodeNames(tree) ==
    GroupNames(tree) \cup
        UNION { {tree[i].cats[j] : j \in 1..Len(tree[i].cats)} :
                    i \in 1..Len(tree) }

(***************************************************************************)
(* Provider data and budgets the executions start from.                    *)
(***************************************************************************)

HolderName  == <<"M","r"," ","S"," ","G","o","r","d","o","n">>
ProductPBA  == <<"P","r","i","v","a","t","e"," ","B","a","n","k"," ","A","c","c","o","u","n","t">>
ProductCard == <<"C","r","e","d","i","t"," ","C","a","r","d">>
NickSavings == <<"S","a","v","i","n","g","s">>
NickCheque  == <<"S","e","a","n","'","s"," ","C","h","e","q","u","e">>

InvAccCheque ==
    [accountId |-> <<"A","C","C","1">>, accountNumber |-> <<"1","0","0","1","1","2","3","4">>, accountName |-> HolderName,
     referenceName |-> NickCheque, productName |-> ProductPBA]
InvAccSavings ==
    [accountId |-> <<"A","C","C","2">>, accountNumber |-> <<"1","0","0","2","5","6","7","8">>, accountName |-> HolderName,
     referenceName |-> NickSavings, productName |-> ProductPBA]
\* a second account the holder gave the same nickname
InvAccSavingsToo ==
    [accountId |-> <<"A","C","C","3">>, accountNumber |-> <<"1","0","0","3","9","0","1","2">>, accountName |-> HolderName,
     referenceName |-> NickSavings, productName |-> ProductPBA]
\* no nickname of its own: the reference name is the holder's name
InvAccCard ==
    [accountId |-> <<"A","C","C","4">>, accountNumber |-> <<"4","0","2","1","4","3","2","1">>, accountName |-> HolderName,
     referenceName |-> HolderName, productName |-> ProductCard]

TxTemplate ==
    [accountId |-> <<>>, amount |-> 150000, type |-> "DEBIT",
     transactionDate |-> Date0301, postingDate |-> <<>>, actionDate |-> <<>>,
     valueDate |-> <<>>, description |-> <<"W","o","o","l","i","e","s"," ","#","1">>,
     postedOrder |-> [has |-> TRUE, val |-> 7],
     transactionType |-> <<"C","a","r","d","P","u","r","c","h","a","s","e","s">>, cardNumber |-> <<"4","0","2","1">>,
     runningBalance |-> 5, status |-> "POSTED"]

TxGroceries == TxTemplate
TxSalary ==
    [TxTemplate EXCEPT !.amount = 1005, !.type = "CREDIT", !.transactionDate = <<>>,
                       !.postingDate = Date0301T, !.description = <<"S","a","l","a","r","y">>,
                       !.postedOrder = NoPostedOrder, !.cardNumber = <<>>]
TxUndated == [TxTemplate EXCEPT !.transactionDate = <<>>, !.description = <<"P","e","n","d","i","n","g">>]

\* The provider's answers: the accounts, and the transactions of each.
InvestecData ==
    { [accounts |-> <<InvAccCheque, InvAccSavings>>,
       txs |-> << <<TxGroceries, TxUndated>>, <<TxSalary>> >>],
      [accounts |-> <<InvAccSavings, InvAccSavingsToo>>,
       txs |-> << <<TxGroceries>>, <<TxSalary, TxGroceries>> >>],
      [accounts |-> <<InvAccCard, InvAccCheque>>,
       txs |-> << <<>>, <<TxGroceries, TxSalary>> >>] }

NoBudget    == [accounts |-> <<>>, txs |-> {}, groups |-> <<>>, cats |-> <<>>]

\* The budget on the server before the first run: empty, or with the cheque
\* account already there under a name of another case.
ServerBudgets ==
    { NoBudget,
      [accounts |-> <<[id |-> 1, name |-> <<"S","E","A","N","'","S"," ","C","H","E","Q","U","E"," ">>, type |-> "checking", offbudget |-> FALSE]>>,
       txs |-> {}, groups |-> <<>>, cats |-> <<>>] }

\* The worker's local variables at `Worker started`.
FreshRun ==
    [ pc |-> "validate", idx |-> 0, actualAccounts |-> <<>>, matched |-> 0,
      totalImported |-> 0, initialised |-> FALSE, shutdown |-> FALSE, code |-> 0,
      failedAt |-> "none", catOps |-> <<>>, bindings |-> <<>>, created |-> {}, imports |-> {},
      keys |-> {},
      added |-> 0,
      skipped |-> FALSE, pushed |-> FALSE,
      steps |-> {}, message |-> "none",
      reset |-> FALSE, initPassword |-> FALSE, downloads |-> <<>>, error |-> "none",
      log |-> <<>>, counts |-> <<>>, reported |-> 0 ]

NoRun == [FreshRun EXCEPT !.pc = "none"]

TreeFood == << [name |-> "Food", cats |-> <<"Groceries">>] >>
TreeFoodBills ==
    << [name |-> "Food", cats |-> <<"Groceries", "Dining">>],
       [name |-> "Bills", cats |-> <<"Rent">>] >>

CategoryTrees == {TreeFood, TreeFoodBills}

\* the optional field categories of a profile: absent, or a tree of its own
NoOwnCategories == [present |-> FALSE, tree |-> <<>>]
OwnCategories(t) == [present |-> TRUE, tree |-> t]

\* a profile of config.json with every field filled in, no password and no
\* categories of its own (a string field that is absent or empty is "")
SyncProfile ==
    [ enabled |-> TRUE, investecClientId |-> "client", investecSecretId |-> "secret",
      investecApiKey |-> "key", actualServerUrl |-> "https://actual",
      actualPassword |-> "", actualBudgetId |-> "budget",
      categories |-> NoOwnCategories ]

\* A variant of the payload in which the categories of the profile itself,
\* when it has some, stay in place.
PayloadCategoriesOwnFirst(profile, categories) ==
    IF profile.categories.present THEN profile.categories.tree ELSE categories

\* const categories = loadCategories(); const payload = { ...profile, categories }:
\* the key written last wins, payload.categories is what categories.json holds
PayloadCategories(profile, categories) == categories

\* no worker was forked yet
NoEnv == [action |-> "none", payload |-> SyncProfile]

\* the files of the coordinator and the worker's environment before the first fork
StoreInit ==
    /\ store = [profile |-> SyncProfile, categories |-> categoryTree]
    /\ env = NoEnv

ExecInit ==
    /\ categoryTree = <<>>
    /\ StoreInit
    /\ investec \in InvestecData
    /\ serverBudget \in ServerBudgets
    /\ localBudget = NoBudget
    /\ ex = NoRun
    /\ prevRun = NoRun

ExecIdle ==
    /\ categoryTree = <<>>
    /\ StoreInit
    /\ investec = [accounts |-> <<>>, txs |-> <<>>]
    /\ serverBudget = NoBudget
    /\ localBudget = NoBudget
    /\ ex = NoRun
    /\ prevRun = NoRun

(***************************************************************************)
(*                PART B: the coordinator and its workers                  *)
(*                                                                         *)
(* The coordinator is one single-threaded event loop: every handler runs   *)
(* to its first await without interleaving, so it is one action.  A worker *)
(* is a forked process; it advances on its own, and its 'message' and      *)
(* 'exit' events reach the coordinator later, in either order.             *)
(***************************************************************************)

\* Bound of the model: worker processes that exist at one time.
MaxWorkers == 2

Profiles == {"p1", "p2"}

\* the profile.id of a test request whose body carries none
NoId     == "none"
TestTemp == "test-temp"
\* the ids POST /api/test/actual is called with
TestIds  == {"p1", NoId}
DirKeys  == Profiles \cup {TestTemp}

\* What runSync and setupCron read of a profile: is it in config.profiles, is it
\* enabled, are investecClientId and actualServerUrl set, is syncSchedule a
\* non-empty valid cron expression.
AbsentProfile   == [present |-> FALSE, enabled |-> FALSE, complete |-> FALSE, scheduled |-> FALSE]
DisabledProfile == [present |-> TRUE,  enabled |-> FALSE, complete |-> TRUE,  scheduled |-> TRUE]
PartialProfile  == [present |-> TRUE,  enabled |-> TRUE,  complete |-> FALSE, scheduled |-> TRUE]
ManualProfile   == [present |-> TRUE,  enabled |-> TRUE,  complete |-> TRUE,  scheduled |-> FALSE]
ReadyProfile    == [present |-> TRUE,  enabled |-> TRUE,  complete |-> TRUE,  scheduled |-> TRUE]

\* The configurations POST /api/config is called with.
SavedConfigs ==
    { [p \in Profiles |-> ReadyProfile],
      [p \in Profiles |-> IF p = "p1" THEN ManualProfile ELSE ReadyProfile],
      [p \in Profiles |-> IF p = "p1" THEN DisabledProfile ELSE PartialProfile],
      [p \in Profiles |-> IF p = "p1" THEN ReadyProfile ELSE AbsentProfile] }

\* setupCron: one task per enabled profile with a valid schedule
CronTasksOf(cfg) ==
    {p \in Profiles : cfg[p].present /\ cfg[p].enabled /\ cfg[p].scheduled}

\* A slot of the process table that holds no process.
NoWorker ==
    [ action |-> "none", id |-> NoId, pc |-> "free", code |-> 0,
      result |-> "none", exitEvt |-> "none", errLog |-> "none" ]

\* fork(__filename, {env: {WORKER_ACTION, WORKER_PAYLOAD}}): a fresh process.
\*   pc       where the process stands: started, session (cache directory reset,
\*            engine initialised), finally, catch, exited
\*   code     its exit code (1 stands for every code !== 0)
\*   result   its {type:'result'} message: none / sent (in the channel) / handled
\*   exitEvt  its 'exit' event: none / sent / handled
\*   errLog   the {type:'log', level:'error'} message of its catch block:
\*            none / sent (in the channel) / handled (addLog has stored it)
NewWorker(action, id) ==
    [ action |-> action, id |-> id, pc |-> "started", code |-> 0,
      result |-> "none", exitEvt |-> "none", errLog |-> "none" ]

WorkerIds == 1..MaxWorkers

Exists(w) == w.pc # "free"
Alive(w)  == w.pc \notin {"free", "exited"}

\* whether the spawnWorker promise of w has been resolved
Resolved(w) == w.result = "handled" \/ w.exitEvt = "handled"

\* const PROFILE_DATA_DIR = path.join(ACTUAL_DATA_DIR, payload.id || 'default')
DirOf(w) == w.id

\* the process is executing on its cache directory (reset it, opened the budget
\* in it, has not yet left actual.shutdown)
InDir(w) == w.pc \in {"session", "finally"}

FreeSlots == {i \in WorkerIds : ~Exists(workers[i])}

\* the slot a fork takes
NextSlot == CHOOSE i \in FreeSlots : \A j \in FreeSlots : i <= j

Fork(action, id) ==
    /\ FreeSlots # {}
    /\ workers' = [workers EXCEPT ![NextSlot] = NewWorker(action, id)]

NoTrigger == [source |-> "none", id |-> NoId, outcome |-> "none"]

\* the channel of a worker: the log messages under way, and how many it has sent
NoIpc == [queue |-> <<>>, sent |-> 0]

CoordInit ==
    /\ config = [p \in Profiles |-> ReadyProfile]
    /\ cronTasks = CronTasksOf(config)
    /\ processingProfiles = {}
    /\ workers = [i \in WorkerIds |-> NoWorker]
    /\ lastTrigger = NoTrigger
    /\ logs = <<>>
    /\ ipc = NoIpc

\* A variant of runSync that never looks at processingProfiles.
RunSyncOutcomeNoGuard(p) ==
    IF ~config[p].present THEN "notfound"
    ELSE IF ~config[p].enabled THEN "disabled"
    ELSE IF ~config[p].complete THEN "configmissing"
    ELSE "started"

\* A variant of runSync that never looks at profile.enabled.
RunSyncOutcomeNoEnabledCheck(p) ==
    IF p \in processingProfiles THEN "skipped"
    ELSE IF ~config[p].present THEN "notfound"
    ELSE IF ~config[p].complete THEN "configmissing"
    ELSE "started"

\* runSync(profileId) up to its await: which branch it takes.
RunSyncOutcome(p) ==
    IF p \in processingProfiles THEN "skipped"
    ELSE IF ~config[p].present THEN "notfound"
    ELSE IF ~config[p].enabled THEN "disabled"
    ELSE IF ~config[p].complete THEN "configmissing"
    ELSE "started"

\* runSync(profileId): synchronous up to `await spawnWorker('sync', payload)`.
RunSync(p, source) ==
    LET o == RunSyncOutcome(p) IN
    /\ IF o = "started"
       THEN /\ processingProfiles' = processingProfiles \cup {p}
            /\ Fork("sync", p)
       ELSE UNCHANGED <<processingProfiles, workers>>
    /\ lastTrigger' = [source |-> source, id |-> p, outcome |-> o]
    /\ UNCHANGED <<config, cronTasks>>

\* app.post('/api/sync')
ManualTrigger(p) ==
    /\ IF p \in processingProfiles
       THEN /\ lastTrigger' = [source |-> "manual", id |-> p, outcome |-> "busy"]
            /\ UNCHANGED <<config, cronTasks, processingProfiles, workers>>
       ELSE RunSync(p, "manual")
    /\ UNCHANGED <<txVars, execVars, logVars>>

\* cron.schedule(p.syncSchedule, () => runSync(p.id))
CronTick(p) ==
    /\ p \in cronTasks
    /\ RunSync(p, "cron")
    /\ UNCHANGED <<txVars, execVars, logVars>>

\* app.post('/api/test/actual'): profile = req.body
TestActual(id) ==
    /\ IF id \in processingProfiles
       THEN /\ lastTrigger' = [source |-> "test", id |-> id, outcome |-> "busy"]
            /\ UNCHANGED workers
       ELSE /\ Fork("test-actual", IF id = NoId THEN TestTemp ELSE id)
            /\ lastTrigger' = [source |-> "test", id |-> id, outcome |-> "started"]
    /\ UNCHANGED <<config, cronTasks, processingProfiles, txVars, execVars, logVars>>

\* A variant of saveConfig whose setupCron does not stop the tasks it holds.
SaveConfigKeepsTasks(cfg) ==
    /\ cfg # config
    /\ config' = cfg
    /\ cronTasks' = cronTasks \cup CronTasksOf(cfg)
    /\ lastTrigger' = NoTrigger
    /\ UNCHANGED <<processingProfiles, workers, txVars, execVars, logVars>>

\* app.post('/api/config'): saveConfig(req.body) -> setupCron(cfg)
SaveConfig(cfg) ==
    /\ cfg # config
    /\ config' = cfg
    /\ cronTasks' = CronTasksOf(cfg)
    /\ lastTrigger' = NoTrigger
    /\ UNCHANGED <<processingProfiles, workers, txVars, execVars, logVars>>

\* The process table after worker i's record became w: a process that has exited
\* and whose events have all been consumed is gone.
Reap(w) ==
    IF w.pc = "exited" /\ w.exitEvt = "handled" /\ w.result # "sent" /\ w.errLog # "sent"
    THEN NoWorker ELSE w

SetWorker(i, w) ==
    /\ workers' = [workers EXCEPT ![i] = Reap(w)]
    /\ lastTrigger' = NoTrigger

\* Worker: validation and the network check passed; cleanDataDir() removes and
\* recreates the directory; await actual.init(initConfig) returned.
WorkerOpenSession(i) ==
    /\ workers[i].pc = "started"
    /\ SetWorker(i, [workers[i] EXCEPT !.pc = "session"])
    /\ UNCHANGED <<config, cronTasks, processingProfiles, txVars, execVars, logVars>>

\* Worker, action test-actual: the budget was downloaded;
\* process.send({type:'result', success:true}); return  -> finally
WorkerTestResult(i) ==
    /\ workers[i].pc = "session"
    /\ workers[i].action = "test-actual"
    /\ SetWorker(i, [workers[i] EXCEPT !.pc = "finally", !.result = "sent"])
    /\ UNCHANGED <<config, cronTasks, processingProfiles, txVars, execVars, logVars>>

\* Worker, action sync: the body ran to its end (no result message) -> finally
WorkerSyncDone(i) ==
    /\ workers[i].pc = "session"
    /\ workers[i].action = "sync"
    /\ SetWorker(i, [workers[i] EXCEPT !.pc = "finally"])
    /\ UNCHANGED <<config, cronTasks, processingProfiles, txVars, execVars, logVars>>

\* Worker: finally { try { await actual.shutdown(); } catch(e) {} process.exit(0); }
WorkerShutdownExit(i) ==
    /\ workers[i].pc = "finally"
    /\ SetWorker(i, [workers[i] EXCEPT !.pc = "exited", !.code = 0, !.exitEvt = "sent"])
    /\ UNCHANGED <<config, cronTasks, processingProfiles, txVars, execVars, logVars>>

\* Worker: a step threw (missing URL or budget id, network check, init, download
\* and everything behind it);
\* catch: logP(ERROR), process.send({type:'result', success:false, message})
WorkerThrow(i) ==
    /\ workers[i].pc \in {"started", "session"}
    /\ SetWorker(i, [workers[i] EXCEPT !.pc = "catch", !.result = "sent", !.errLog = "sent"])
    /\ UNCHANGED <<config, cronTasks, processingProfiles, txVars, execVars, logVars>>

\* Worker: catch { ...; process.exit(1); }  The process ends here: the finally
\* block is not run.  A result message still in the channel may be lost.
WorkerExitFailure(i) ==
    /\ workers[i].pc = "catch"
    /\ \E lost \in BOOLEAN :
         SetWorker(i, [workers[i] EXCEPT !.pc = "exited", !.code = 1, !.exitEvt = "sent",
                          !.result = IF lost /\ @ = "sent" THEN "none" ELSE @])
    /\ UNCHANGED <<config, cronTasks, processingProfiles, txVars, execVars, logVars>>

\* Worker: the process dies by itself (native crash, kill): non-zero or null
\* exit code, no result message from the catch block.
WorkerCrash(i) ==
    /\ workers[i].pc \in {"started", "session", "finally"}
    /\ SetWorker(i, [workers[i] EXCEPT !.pc = "exited", !.code = 1, !.exitEvt = "sent"])
    /\ UNCHANGED <<config, cronTasks, processingProfiles, txVars, execVars, logVars>>

\* A variant of the promise's settling in which the slot is never given back.
ResolveKeepSlot(i) == processingProfiles

\* A variant in which the finally of runSync clears the whole set.
ResolveClearAll(i) ==
    IF ~Resolved(workers[i]) /\ workers[i].action = "sync" THEN {} ELSE processingProfiles

\* resolve(...) of worker i's spawnWorker promise.  The first resolve resumes the
\* awaiting runSync, whose finally deletes the id; a test request only answers.
Resolve(i) ==
    IF ~Resolved(workers[i]) /\ workers[i].action = "sync"
    THEN processingProfiles \ {workers[i].id}
    ELSE processingProfiles

\* child.on('message'): msg.type === 'log' -> addLog(msg.message, msg.level)
OnLog(i) ==
    /\ workers[i].errLog = "sent"
    /\ SetWorker(i, [workers[i] EXCEPT !.errLog = "handled"])
    /\ UNCHANGED <<config, cronTasks, processingProfiles, txVars, execVars, logVars>>

\* child.on('message'): msg.type === 'result' -> resolve(msg).  The messages
\* of one channel are handled in the order they were sent.
OnResult(i) ==
    /\ workers[i].result = "sent"
    /\ workers[i].errLog # "sent"
    /\ SetWorker(i, [workers[i] EXCEPT !.result = "handled"])
    /\ processingProfiles' = Resolve(i)
    /\ UNCHANGED <<config, cronTasks, txVars, execVars, logVars>>

\* child.on('exit'): resolve({success: code === 0 ...})
OnExit(i) ==
    /\ workers[i].exitEvt = "sent"
    /\ SetWorker(i, [workers[i] EXCEPT !.exitEvt = "handled"])
    /\ processingProfiles' = Resolve(i)
    /\ UNCHANGED <<config, cronTasks, txVars, execVars, logVars>>

TxIdle == rawTxs = <<>> /\ actualTxs = <<>> /\ importCalls = <<>>

Init == CoordInit /\ TxIdle /\ ExecIdle

Next ==
    \/ \E p \in Profiles : ManualTrigger(p)
    \/ \E p \in Profiles : CronTick(p)
    \/ \E id \in TestIds : TestActual(id)
    \/ \E cfg \in SavedConfigs : SaveConfig(cfg)
    \/ \E i \in WorkerIds : WorkerOpenSession(i)
    \/ \E i \in WorkerIds : WorkerTestResult(i)
    \/ \E i \in WorkerIds : WorkerSyncDone(i)
    \/ \E i \in WorkerIds : WorkerShutdownExit(i)
    \/ \E i \in WorkerIds : WorkerThrow(i)
    \/ \E i \in WorkerIds : WorkerExitFailure(i)
    \/ \E i \in WorkerIds : WorkerCrash(i)
    \/ \E i \in WorkerIds : OnLog(i)
    \/ \E i \in WorkerIds : OnResult(i)
    \/ \E i \in WorkerIds : OnExit(i)

Spec == Init /\ [][Next]_vars

\* The event loop handles every pending event, and every worker process keeps
\* running until it has exited (no call of a worker hangs for ever).
FairSpec ==
    /\ Spec
    /\ \A i \in WorkerIds :
         /\ WF_vars(WorkerOpenSession(i) \/ WorkerTestResult(i) \/ WorkerSyncDone(i)
                      \/ WorkerShutdownExit(i) \/ WorkerExitFailure(i))
         /\ WF_vars(OnLog(i))
         /\ WF_vars(OnResult(i))
         /\ WF_vars(OnExit(i))

(***************************************************************************)
(* The log buffer of the coordinator, entry by entry                       *)
(*                                                                         *)
(* One worker sends log messages; the coordinator stores them as it        *)
(* handles them and adds entries of its own in between.                    *)
(***************************************************************************)

\* const MAX_LOGS = 200;
MAX_LOGS == 200

\* the levels the calls of addLog and logP pass
LogLevels == {"info", "success", "error"}

\* the level of the k-th entry of a source
LevelOf(k) == CASE k % 3 = 1 -> "info" [] k % 3 = 2 -> "success" [] OTHER -> "error"

\* Bounds of the model: the entries that arrive in a behaviour, the messages
\* under way at a time, and the arrivals at which the coordinator may add an
\* entry of its own.
MaxLogEvents == MAX_LOGS + 3
MaxQueue == 3
ServerSlots == {1, 2, 100, MAX_LOGS, MAX_LOGS + 1, MAX_LOGS + 2}

\* the arrival number of the next entry (stands for its timestamp)
NextAt == IF logs = <<>> THEN 1 ELSE logs[Len(logs)].at + 1

\* A variant of addLog that never drops an entry.
addLogNoShift(buffer, entry) == Append(buffer, entry)

\* logs.push(entry); if (logs.length > MAX_LOGS) logs.shift();
addLog(buffer, entry) ==
    LET pushed == Append(buffer, entry)
    IN  IF Len(pushed) > MAX_LOGS THEN Tail(pushed) ELSE pushed

\* addLog(message, type) called by the coordinator itself
ServerLog ==
    /\ NextAt \in ServerSlots
    /\ logs' = addLog(logs, [at |-> NextAt, from |-> "server", k |-> 0,
                             type |-> LevelOf(NextAt)])
    /\ UNCHANGED <<ipc, config, cronTasks, processingProfiles, workers, lastTrigger,
                   txVars, execVars>>

\* worker: process.send({ type: 'log', message: msg, level: type })
WorkerSend ==
    /\ Len(ipc.queue) < MaxQueue
    /\ NextAt + Len(ipc.queue) <= MaxLogEvents
    /\ ipc' = [queue |-> Append(ipc.queue, [k |-> ipc.sent + 1, level |-> LevelOf(ipc.sent + 1)]),
               sent  |-> ipc.sent + 1]
    /\ UNCHANGED <<logs, config, cronTasks, processingProfiles, workers, lastTrigger,
                   txVars, execVars>>

\* child.on('message', (msg) => { if (msg.type === 'log') addLog(msg.message, msg.level); ...
HandleLog ==
    /\ ipc.queue # <<>>
    /\ logs' = addLog(logs, [at |-> NextAt, from |-> "worker", k |-> Head(ipc.queue).k,
                             type |-> Head(ipc.queue).level])
    /\ ipc' = [ipc EXCEPT !.queue = Tail(@)]
    /\ UNCHANGED <<config, cronTasks, processingProfiles, workers, lastTrigger,
                   txVars, execVars>>

LogNext == ServerLog \/ WorkerSend \/ HandleLog

SpecLogs == Init /\ [][LogNext]_vars

(***************************************************************************)
(* Claims about the coordinator                                            *)
(***************************************************************************)

\* The sync executions of profile p in flight: the runSync calls that were
\* admitted and whose awaited spawnWorker promise is not yet resolved.
InFlight(p) ==
    {i \in WorkerIds : /\ Exists(workers[i]) /\ workers[i].action = "sync"
                       /\ workers[i].id = p /\ ~Resolved(workers[i])}

SyncTriggered(p) == lastTrigger'.id = p /\ lastTrigger'.source \in {"manual", "cron"}

\* the sync workers of p forked in this step
ForkedFor(p) ==
    {i \in WorkerIds : /\ ~Exists(workers[i]) /\ Exists(workers'[i])
                       /\ workers'[i].action = "sync" /\ workers'[i].id = p}

C1_Admission ==
    \A p \in Profiles :
      /\ (SyncTriggered(p) /\ p \in processingProfiles) =>
            /\ lastTrigger'.outcome =
                  (IF lastTrigger'.source = "manual" THEN "busy" ELSE "skipped")
            /\ workers' = workers
            /\ processingProfiles' = processingProfiles
      /\ (SyncTriggered(p) /\ p \notin processingProfiles) =>
            /\ lastTrigger'.outcome \notin {"busy", "skipped"}
            /\ config[p] \in {ReadyProfile, ManualProfile} =>
                  /\ lastTrigger'.outcome = "started"
                  /\ processingProfiles' = processingProfiles \cup {p}
                  /\ Cardinality(ForkedFor(p)) = 1
      /\ ForkedFor(p) # {} => (SyncTriggered(p) /\ p \notin processingProfiles)

\* C1: at most one sync execution is in flight per profile (a profile is in
\* processingProfiles exactly while it has one); a manual or cron trigger for a
\* profile in processingProfiles is rejected at once (manual: busy, cron:
\* skipped), forks nothing and leaves nothing behind to run later; a sync
\* worker is forked only by a trigger for a profile that is not busy; a trigger
\* for a profile that is not busy is never answered busy/skipped, whatever the
\* other profiles do.
C1_AtMostOneSyncPerProfile ==
    /\ [](\A p \in Profiles :
            /\ Cardinality(InFlight(p)) <= 1
            /\ (p \in processingProfiles <=> InFlight(p) # {}))
    /\ [][C1_Admission]_vars

\* C1 witness: p1 is busy, a cron tick for p1 has just been skipped, and p2 has
\* its own execution in flight.
C1_Witness ==
    /\ lastTrigger = [source |-> "cron", id |-> "p1", outcome |-> "skipped"]
    /\ InFlight("p1") # {}
    /\ InFlight("p2") # {}

\* the coordinator handles the first event (result message or exit) of sync
\* worker i in this step
FirstEventHandled(i) ==
    /\ Exists(workers[i]) /\ workers[i].action = "sync" /\ ~Resolved(workers[i])
    /\ \/ (workers[i].result = "sent" /\ workers'[i].result # "sent"
             /\ workers'[i].pc = workers[i].pc)
       \/ (workers[i].exitEvt = "sent" /\ workers'[i].exitEvt # "sent")

\* C3: every admitted sync execution eventually releases its slot: a profile in
\* processingProfiles eventually is not (the worker eventually exits and the
\* event loop handles its events), and the first result message or exit event
\* of a sync worker, whatever its exit code, removes its profile.
C3_SlotEventuallyReleased ==
    /\ \A p \in Profiles : (p \in processingProfiles) ~> (p \notin processingProfiles)
    /\ [][\A i \in WorkerIds :
            FirstEventHandled(i) => workers[i].id \notin processingProfiles']_vars

\* C3 witness: the execution of p1 failed and was released by its result
\* message (its exit event is still pending), and a later trigger for p1 has
\* been admitted again.
C3_Witness ==
    \E i, j \in WorkerIds :
      /\ i # j
      /\ workers[i].action = "sync" /\ workers[i].id = "p1"
      /\ workers[i].pc = "exited" /\ workers[i].code = 1
      /\ workers[i].result = "handled" /\ workers[i].exitEvt = "sent"
      /\ workers[j].action = "sync" /\ workers[j].id = "p1" /\ workers[j].pc = "started"
      /\ lastTrigger = [source |-> "manual", id |-> "p1", outcome |-> "started"]

\* C5: no two live worker executions (sync or test-actual) operate on the same
\* cache directory at the same time.
C5_ExclusiveCacheDir ==
    \A i, j \in WorkerIds :
      (i # j /\ InDir(workers[i]) /\ InDir(workers[j]))
          => DirOf(workers[i]) # DirOf(workers[j])

\* worker i dies with a non-zero exit code in this step
Dies(i) ==
    /\ Alive(workers[i]) /\ ~Alive(workers'[i])
    /\ workers'[i].code = 1 \/ workers'[i] = NoWorker

\* the coordinator handles the exit event of the failed worker i in this step
FailureHandled(i) ==
    /\ workers[i].pc = "exited" /\ workers[i].code = 1
    /\ workers[i].exitEvt = "sent" /\ workers'[i].exitEvt # "sent"

\* C6: when the worker of profile P dies with a non-zero exit code, and when
\* the coordinator handles that exit, nothing of the coordinator changes but
\* that P may leave processingProfiles: the configuration, the cron tasks, the
\* slots of the other profiles and the other worker processes stay as they are;
\* and P does leave when this is the first event of its execution.
C6_CrashContained ==
    [][\A i \in WorkerIds :
         (Dies(i) \/ FailureHandled(i)) =>
            /\ config' = config
            /\ cronTasks' = cronTasks
            /\ processingProfiles' \subseteq processingProfiles
            /\ processingProfiles \ processingProfiles' \subseteq {workers[i].id}
            /\ \A j \in WorkerIds \ {i} : workers'[j] = workers[j]
            /\ (FailureHandled(i) /\ FirstEventHandled(i))
                  => workers[i].id \notin processingProfiles']_vars

\* C6 witness: the sync worker of p1 ended with a non-zero exit code, the
\* coordinator has handled its exit (before its result message) and released
\* p1, and the execution of p2 is still in flight, its worker in its session.
C6_Witness ==
    \E i, j \in WorkerIds :
      /\ workers[i].action = "sync" /\ workers[i].id = "p1"
      /\ workers[i].pc = "exited" /\ workers[i].code = 1
      /\ workers[i].exitEvt = "handled" /\ workers[i].result = "sent"
      /\ "p1" \notin processingProfiles
      /\ workers[j].action = "sync" /\ workers[j].id = "p2" /\ workers[j].pc = "session"
      /\ "p2" \in processingProfiles
(***************************************************************************)
(* The transformer on its own                                              *)
(***************************************************************************)

TxInit ==
    /\ CoordInit
    /\ ExecIdle
    /\ \E t \in BaseTxs : \E u \in Variants(t) : rawTxs = <<t, u>>
    /\ actualTxs = <<>>
    /\ importCalls = <<>>

\* rawTxs.map(transformTransaction)
MapTransform ==
    /\ actualTxs = <<>>
    /\ actualTxs' = [i \in 1..Len(rawTxs) |-> transformTransaction(rawTxs[i])]
    /\ UNCHANGED <<rawTxs, importCalls, coordVars, execVars>>

TxNext == MapTransform

SpecTx == TxInit /\ [][TxNext]_vars

(***************************************************************************)
(* The transformer on amounts of either sign and of every fraction         *)
(***************************************************************************)

\* Bound of the model: the amounts run over -MaxMilli..MaxMilli thousandths.
MaxMilli == 150

\* t.amount (thousandths): every amount up to 0.150 of either sign, and 150.00,
\* 1.005 and 149.995 of either sign.
WideAmounts ==
    (-MaxMilli..MaxMilli) \cup {150000, -150000, 1005, -1005, 149995, -149995}

\* t.type: debit, credit, and a type that is neither
TxTypes == {"DEBIT", "CREDIT", "FEE"}

AmountInit ==
    /\ CoordInit
    /\ ExecIdle
    /\ \E a \in WideAmounts, ty \in TxTypes :
          rawTxs = << [TxTemplate EXCEPT !.accountId = AccountIdA, !.amount = a, !.type = ty] >>
    /\ actualTxs = <<>>
    /\ importCalls = <<>>

SpecAmount == AmountInit /\ [][TxNext]_vars

(***************************************************************************)
(* The transformer on every combination of the four date fields            *)
(***************************************************************************)

Date0303  == <<"2","0","2","4","-","0","3","-","0","3">>
Date0303T == Date0303 \o <<"T","0","0",":","0","0",":","0","0","Z">>
Date0304T == <<"2","0","2","4","-","0","3","-","0","4">> \o <<"T","2","3",":","5","9">>

\* each date field absent or holding a day of its own, with or without a time
DatedTxs ==
    { [TxTemplate EXCEPT !.accountId = AccountIdA, !.type = ty, !.postedOrder = po,
                         !.transactionDate = d1, !.postingDate = d2,
                         !.actionDate = d3, !.valueDate = d4] :
        ty \in {"DEBIT", "CREDIT"}, po \in {NoPostedOrder, [has |-> TRUE, val |-> 7]},
        d1 \in {<<>>, Date0301T}, d2 \in {<<>>, Date0302},
        d3 \in {<<>>, Date0303, Date0303T}, d4 \in {<<>>, Date0304T} }

DateInit ==
    /\ CoordInit
    /\ ExecIdle
    /\ \E t \in DatedTxs : rawTxs = <<t>>
    /\ actualTxs = <<>>
    /\ importCalls = <<>>

SpecDates == DateInit /\ [][TxNext]_vars

(***************************************************************************)
(* The import calls of one account, for short and for long transaction     *)
(* lists                                                                   *)
(***************************************************************************)

\* The largest batch of the batched import (const BATCH_SIZE = 500).
BATCH_SIZE == 500

\* the number of transactions the provider returns for the account
ListSizes == (0..50) \cup {BATCH_SIZE - 1, BATCH_SIZE, BATCH_SIZE + 1}

\* a list of n transactions of one account with ordinals 1..n, every
\* `every`-th of them without any date
TxList(n, every) ==
    [k \in 1..n |->
        IF k % every = 0
        THEN [TxUndated EXCEPT !.accountId = AccountIdA, !.postedOrder = [has |-> TRUE, val |-> k]]
        ELSE [TxGroceries EXCEPT !.accountId = AccountIdA, !.postedOrder = [has |-> TRUE, val |-> k]]]

BatchInit ==
    /\ CoordInit
    /\ ExecIdle
    /\ \E n \in ListSizes, every \in {3, BATCH_SIZE + 2} : rawTxs = TxList(n, every)
    /\ actualTxs = <<>>
    /\ importCalls = <<>>

\* if (rawTxs.length > 0) {
\*     const actualTxs = rawTxs.map(transformTransaction).filter(t => t.date);
\*     const result = await actual.importTransactions(matchedAccount.id, actualTxs);
ImportAccount ==
    /\ actualTxs = <<>> /\ importCalls = <<>>
    /\ rawTxs # <<>>
    /\ actualTxs' = TransformAll(rawTxs)
    /\ importCalls' = << actualTxs' >>
    /\ UNCHANGED <<rawTxs, coordVars, execVars>>

\* (an empty list: no call is made)
BatchNext == ImportAccount

SpecBatch == BatchInit /\ [][BatchNext]_vars

(***************************************************************************)
(* Claims about the transformer                                            *)
(***************************************************************************)

\* t and u agree on every field but the non-identifying ones
\* (running balance, status, transaction type, card number).
SameIdentifying(t, u) ==
    u = [t EXCEPT !.transactionType = u.transactionType, !.cardNumber = u.cardNumber,
                  !.runningBalance = u.runningBalance, !.status = u.status]

\* C9: two source transactions of the same account that differ only in
\* non-identifying fields (running balance, status, transaction type, card
\* number) get the same dedup key (imported_id).
C9_KeyIgnoresNonIdentifying ==
    (actualTxs # <<>> /\ SameIdentifying(rawTxs[1], rawTxs[2]))
        => actualTxs[1].imported_id = actualTxs[2].imported_id

\* C9 witness: two transformed transactions that differ in all four
\* non-identifying fields and in nothing else.
C9_Witness ==
    /\ actualTxs # <<>>
    /\ SameIdentifying(rawTxs[1], rawTxs[2])
    /\ rawTxs[1].transactionType # rawTxs[2].transactionType
    /\ rawTxs[1].cardNumber # rawTxs[2].cardNumber
    /\ rawTxs[1].runningBalance # rawTxs[2].runningBalance
    /\ rawTxs[1].status # rawTxs[2].status
    /\ actualTxs[1].notes # actualTxs[2].notes

\* C10: two transactions of the same account that carry different posting
\* ordinals get different dedup keys, also when date, amount and description
\* are the same.
C10_DistinctOrdinalsDistinctKeys ==
    ( /\ actualTxs # <<>>
      /\ rawTxs[1].accountId = rawTxs[2].accountId
      /\ rawTxs[1].postedOrder.has /\ rawTxs[2].postedOrder.has
      /\ rawTxs[1].postedOrder.val # rawTxs[2].postedOrder.val )
        => actualTxs[1].imported_id # actualTxs[2].imported_id

\* C10 witness: same date, same amount, same description, ordinals 7 and 17.
C10_Witness ==
    /\ actualTxs # <<>>
    /\ rawTxs[1].postedOrder = [has |-> TRUE, val |-> 7]
    /\ rawTxs[2].postedOrder = [has |-> TRUE, val |-> 17]
    /\ actualTxs[1].date = actualTxs[2].date
    /\ actualTxs[1].date # <<>>
    /\ actualTxs[1].amount = actualTxs[2].amount
    /\ rawTxs[1].description = rawTxs[2].description
    /\ rawTxs[1].description # <<>>

\* the debit of 150.00 with posting ordinal 7 dated 2024-03-01 on account ACC1
IsDebit150(t) ==
    /\ t.accountId = <<"A","C","C","1">>
    /\ t.type = "DEBIT"
    /\ t.amount = 150000
    /\ t.postedOrder = [has |-> TRUE, val |-> 7]
    /\ OrElse(t.transactionDate, t.postingDate) \in {Date0301, Date0301T}

C12_SignedMinorUnits ==
    \A i \in 1..Len(actualTxs) :
        LET a == actualTxs[i].amount
            m == rawTxs[i].amount
        IN  /\ a \in Int
            /\ Abs(10 * Abs(a) - Abs(m)) <= 5
            /\ rawTxs[i].type = "DEBIT" => a <= 0
            /\ rawTxs[i].type # "DEBIT" => a >= 0

\* C12 witness: a DEBIT the provider sent as -0.145 became -14, and there are
\* transformed credits of negative magnitude too.
C12_Witness ==
    /\ actualTxs # <<>>
    /\ rawTxs[1].type = "DEBIT"
    /\ rawTxs[1].amount = -145
    /\ actualTxs[1].amount = -14




\* throw inside the try block: control goes to the catch of the worker
\* the same behind lines the step has logged
ThrowAfter(step, msg, lines) ==
    ex' = [ex EXCEPT !.pc = "catch", !.failedAt = step, !.steps = @ \cup {step},
                     !.error = msg, !.log = @ \o lines]

ThrowError(step, msg) == ThrowAfter(step, msg, <<>>)

\* e.message of the error a step throws; the steps that call the library or
\* the provider throw errors of their own
MissingConfigMessage == "Missing Server URL or Budget ID"
NetworkErrorMessage == "Network Error: Cannot reach serverUrl"
ErrorMessage(step) ==
    CASE step = "validate" -> MissingConfigMessage
      [] step = "netcheck" -> NetworkErrorMessage
      [] OTHER -> step

Throw(step) == ThrowError(step, ErrorMessage(step))

\* how an execution ended, as the next one remembers it: whether and how it
\* exited, what it added and pushed, and the keys it imported
Ended(run) ==
    [FreshRun EXCEPT !.pc = run.pc, !.code = run.code, !.skipped = run.skipped,
                     !.added = run.added, !.pushed = run.pushed, !.keys = run.keys]

\* runSync behind its checks: const payload = { ...profile, categories };
\* spawnWorker('sync', payload).  The worker holds what the files held when it
\* was forked.  The executions of one profile follow one another.
ExStart ==
    /\ ex.pc \in {"none", "exited"}
    /\ store.profile.enabled
    /\ store.profile.investecClientId # "" /\ store.profile.actualServerUrl # ""
    /\ prevRun' = Ended(ex)
    /\ ex' = [FreshRun EXCEPT !.log = <<"Worker started">>]
    /\ env' = [action |-> "sync", payload |-> store.profile]
    /\ categoryTree' = PayloadCategories(store.profile, store.categories)
    /\ UNCHANGED <<store, investec, serverBudget, localBudget, coordVars, txVars>>

\* if (!serverUrl || !budgetId) throw new Error("Missing Server URL or Budget ID")
ExValidate ==
    /\ ex.pc = "validate"
    /\ IF env.payload.actualServerUrl # "" /\ env.payload.actualBudgetId # ""
       THEN ex' = [ex EXCEPT !.steps = @ \cup {"validate"}, !.pc = "netcheck",
                        !.log = @ \o <<"Config", "Network Check">>]
       ELSE Throw("validate")
    /\ UNCHANGED <<store, env, categoryTree, investec, serverBudget, localBudget, prevRun, coordVars, txVars>>

\* A variant of the probe that resets the cache directory before it throws.
ExNetCheckAfterReset ==
    /\ ex.pc = "netcheck"
    /\ \/ /\ ex' = [ex EXCEPT !.steps = @ \cup {"netcheck"}, !.pc = "clean"]
          /\ UNCHANGED localBudget
       \/ /\ ex' = [ex EXCEPT !.pc = "catch", !.failedAt = "netcheck",
                               !.steps = @ \cup {"netcheck", "clean"}]
          /\ localBudget' = NoBudget
    /\ UNCHANGED <<store, env, categoryTree, investec, serverBudget, prevRun, coordVars, txVars>>

\* fetch(`${serverUrl}/info`): a network error or a non-OK status throws
ExNetCheck ==
    /\ ex.pc = "netcheck"
    /\ \/ ex' = [ex EXCEPT !.steps = @ \cup {"netcheck"}, !.pc = "clean"]
       \/ Throw("netcheck")
    /\ UNCHANGED <<store, env, categoryTree, investec, serverBudget, localBudget, prevRun, coordVars, txVars>>

\* cleanDataDir(): rmSync + mkdirSync, or a logged "Cleanup warning"
ExCleanDir ==
    /\ ex.pc = "clean"
    /\ \/ /\ ex' = [ex EXCEPT !.steps = @ \cup {"clean"}, !.pc = "init", !.reset = TRUE,
                            !.log = @ \o <<"Initialising API Engine">>]
          /\ localBudget' = NoBudget
       \/ \* rmSync or mkdirSync threw: the directory is as it was, or gone
          /\ ex' = [ex EXCEPT !.steps = @ \cup {"clean"}, !.pc = "init",
                               !.log = @ \o <<"Cleanup warning", "Initialising API Engine">>]
          /\ localBudget' \in {localBudget, NoBudget}
    /\ UNCHANGED <<store, env, categoryTree, investec, serverBudget, prevRun, coordVars, txVars>>

\* A variant of the worker that reads the password from config.json when it
\* initialises the engine, not from its payload.
ExInitFromStore ==
    /\ ex.pc = "init"
    /\ \/ ex' = [ex EXCEPT !.steps = @ \cup {"init"}, !.pc = "download", !.initialised = TRUE,
                            !.initPassword = (store.profile.actualPassword # ""),
                            !.log = @ \o <<"Fetching budget context">>]
       \/ Throw("init")
    /\ UNCHANGED <<store, env, categoryTree, investec, serverBudget, localBudget, prevRun, coordVars, txVars>>

\* await actual.init(initConfig)
ExInit ==
    /\ ex.pc = "init"
    /\ \/ ex' = [ex EXCEPT !.steps = @ \cup {"init"}, !.pc = "download", !.initialised = TRUE,
                            !.initPassword = (env.payload.actualPassword # ""),
                            !.log = @ \o <<"Fetching budget context">>]
       \/ Throw("init")
    /\ UNCHANGED <<store, env, categoryTree, investec, serverBudget, localBudget, prevRun, coordVars, txVars>>

\* what errString of a failed download includes: 'invalid-password' or
\* 'encryption', and 'could not get remote files' or 'not found'
DownloadErrors == SUBSET {"encryption", "not found"}

BudgetNotFoundMessage == "SERVER ERROR: Budget file not found. ACTION REQUIRED"
DecryptionFailedMessage == "Decryption Failed"
VerifiedMessage == "Connection verified! Ready to sync."

\* one call of actual.downloadBudget: whether it passed the password, whether
\* it returned, and what the string of its error includes
Attempt(password, ok, err) == [password |-> password, ok |-> ok, err |-> err]

\* await actual.downloadBudget(budgetId)
FirstDownload(ok, err) == Attempt(FALSE, ok, err)

\* A variant of the retry that passes no password.
RetryDownloadWithoutPassword(ok) == Attempt(FALSE, ok, {})

\* await actual.downloadBudget(budgetId, { password: initConfig.password })
RetryDownload(ok) == Attempt(TRUE, ok, {})

\* A variant of the test for a retry that takes any error.
RetryableAnyError(err, password) == password # ""

\* errString.includes('invalid-password') || errString.includes('encryption'),
\* and initConfig.password
Retryable(err, password) == "encryption" \in err /\ password # ""

\* A variant of the error thrown that rethrows the error of the library as it is.
DownloadErrorMessageRaw(err) == "dlErr"

\* the error thrown when the download is not retried: SERVER ERROR with what
\* to do for a missing file, else the error of the library itself
DownloadErrorMessage(err) ==
    IF "encryption" \notin err /\ "not found" \in err THEN BudgetNotFoundMessage ELSE "dlErr"

\* logP(`File encrypted. Retrying with password...`) ahead of the second call
RetryLog(attempts) ==
    IF Len(attempts) = 2 THEN <<"File encrypted. Retrying with password">> ELSE <<>>

\* A variant of the worker that goes to the provider as soon as the budget is
\* loaded and leaves the categories out.
AttachedSkipsCategories(attempts) ==
    /\ localBudget' = serverBudget
    /\ ex' = IF env.action = "test-actual"
             THEN [ex EXCEPT !.steps = @ \cup {"download"}, !.pc = "finally",
                             !.downloads = attempts, !.message = VerifiedMessage,
                             !.log = @ \o RetryLog(attempts)]
             ELSE [ex EXCEPT !.steps = @ \cup {"download"}, !.pc = "fetch",
                             !.downloads = attempts,
                             !.log = @ \o RetryLog(attempts) \o <<"Budget loaded. Starting Sync">>]

\* the download has succeeded: a test of the connection answers and returns,
\* a sync goes on
Attached(attempts) ==
    /\ localBudget' = serverBudget
    /\ ex' = IF env.action = "test-actual"
             THEN [ex EXCEPT !.steps = @ \cup {"download"}, !.pc = "finally",
                             !.downloads = attempts, !.message = VerifiedMessage,
                             !.log = @ \o RetryLog(attempts)]
             ELSE [ex EXCEPT !.steps = @ \cup {"download"}, !.pc = "categories",
                             !.downloads = attempts,
                             !.log = @ \o RetryLog(attempts) \o <<"Budget loaded. Starting Sync">>]

\* the download has failed for good
NotAttached(attempts, msg) ==
    /\ ex' = [ex EXCEPT !.pc = "catch", !.failedAt = "download",
                        !.steps = @ \cup {"download"}, !.error = msg,
                        !.downloads = attempts, !.log = @ \o RetryLog(attempts)]
    /\ UNCHANGED localBudget

\* try { await actual.downloadBudget(budgetId) } catch (dlErr) { ... }: an
\* encryption error is retried once with the password when there is one, a
\* missing file gets the SERVER ERROR message, any other error is rethrown
ExDownload ==
    /\ ex.pc = "download"
    /\ \/ Attached(<< FirstDownload(TRUE, {}) >>)
       \/ \E err \in DownloadErrors :
            LET first == FirstDownload(FALSE, err)
            IN  IF Retryable(err, env.payload.actualPassword)
                THEN \/ Attached(<< first, RetryDownload(TRUE) >>)
                     \/ NotAttached(<< first, RetryDownload(FALSE) >>,
                                    DecryptionFailedMessage)
                ELSE NotAttached(<< first >>, DownloadErrorMessage(err))
    /\ UNCHANGED <<store, env, categoryTree, investec, serverBudget, prevRun, coordVars, txVars>>

\* the lines syncCategories logs: its start, a line for each create call that
\* failed, and "Categories Synchronised" when something was created
CategoryLog(ops) ==
    LET failed == SelectSeq(ops, LAMBDA o : o.caught)
    IN  <<"Syncing Categories">> \o
        [i \in 1..Len(failed) |->
            IF failed[i].op = "createCategoryGroup"
            THEN "Failed to create Group" ELSE "Failed to create Category"] \o
        << IF \E i \in 1..Len(ops) : ~ops[i].caught
           THEN "Categories Synchronised" ELSE "Categories up to date" >>

\* await syncCategories(payload.categories): its getCategoryGroups() or
\* getCategories() may throw; a create call that throws is caught inside.
ExCategories ==
    /\ ex.pc = "categories"
    /\ \/ \E failing \in SUBSET NodeNames(categoryTree), stale \in SUBSET GroupNames(categoryTree) :
            LET r == syncCategories(localBudget, categoryTree, failing, stale)
            IN  /\ failing \cap stale = {}
                /\ localBudget' = [localBudget EXCEPT !.groups = r.groups, !.cats = r.cats]
                /\ ex' = [ex EXCEPT !.steps = @ \cup {"categories"}, !.pc = "fetch", !.catOps = r.ops,
                                    !.log = @ \o CategoryLog(r.ops) \o <<"Fetching Investec data">>]
       \/ /\ ThrowAfter("categories", "categories", <<"Syncing Categories">>)
          /\ UNCHANGED localBudget
    /\ UNCHANGED <<store, env, categoryTree, investec, serverBudget, prevRun, coordVars, txVars>>

\* const investecData = await fetchInvestec(payload);
\* let actualAccounts = await actual.getAccounts(); let totalImported = 0;
ExFetchInvestec ==
    /\ ex.pc = "fetch"
    /\ \/ ex' = [ex EXCEPT !.steps = @ \cup {"fetch"}, !.pc = "account", !.idx = 1,
                           !.actualAccounts = localBudget.accounts, !.totalImported = 0,
                           !.log = @ \o <<"Found bank accounts">>]
       \/ Throw("fetch")
    /\ UNCHANGED <<store, env, categoryTree, investec, serverBudget, localBudget, prevRun, coordVars, txVars>>

\* the loop head, the name, the match and, without a match, createAccount
ExAccount ==
    /\ ex.pc = "account"
    /\ ex.idx <= Len(investec.accounts)
    /\ LET invAcc     == investec.accounts[ex.idx]
           uniqueName == UniqueName(invAcc)
           k          == FindAccount(ex.actualAccounts, uniqueName)
           newId      == NewAccountId(localBudget.accounts)
           created    == [id |-> newId, name |-> uniqueName, type |-> AccType(invAcc),
                          offbudget |-> FALSE]
       IN  IF k # 0
           THEN /\ ex' = [ex EXCEPT !.log = @ \o <<"Syncing">>,
                                       !.steps = @ \cup {"account"}, !.pc = "txfetch", !.matched = ex.actualAccounts[k].id,
                                    !.bindings = Append(ex.bindings, ex.actualAccounts[k].id)]
                /\ UNCHANGED localBudget
           ELSE \/ /\ localBudget' = [localBudget EXCEPT !.accounts = Append(localBudget.accounts, created)]
                   /\ ex' = [ex EXCEPT !.log = @ \o <<"Account not found. Creating", "Created account", "Syncing">>,
                                       !.steps = @ \cup {"account"}, !.pc = "txfetch", !.matched = newId,
                                       !.actualAccounts = Append(localBudget.accounts, created),
                                       !.created = ex.created \cup {newId},
                                       !.bindings = Append(ex.bindings, newId)]
                \/ \* createAccount threw: logged, continue
                   /\ ex' = [ex EXCEPT !.log = @ \o <<"Account not found. Creating", "Failed to create account">>,
                                       !.steps = @ \cup {"account"}, !.idx = ex.idx + 1, !.skipped = TRUE,
                                       !.bindings = Append(ex.bindings, 0)]
                   /\ UNCHANGED localBudget
                \/ \* createAccount returned, the getAccounts() behind it threw:
                   \* the same catch, logged as a failed creation, continue
                   /\ localBudget' = [localBudget EXCEPT !.accounts = Append(localBudget.accounts, created)]
                   /\ ex' = [ex EXCEPT !.log = @ \o <<"Account not found. Creating", "Created account", "Failed to create account">>,
                                       !.steps = @ \cup {"account"}, !.idx = ex.idx + 1, !.skipped = TRUE,
                                       !.created = ex.created \cup {newId},
                                       !.bindings = Append(ex.bindings, 0)]
    /\ UNCHANGED <<store, env, categoryTree, investec, serverBudget, prevRun, coordVars, txVars>>

\* const txRes = await fetch(txUrl, ...); const txData = await txRes.json();
\* an empty list: "No transactions in date range", next account
ExTxFetch ==
    /\ ex.pc = "txfetch"
    /\ \/ ex' = IF investec.txs[ex.idx] # <<>>
                THEN [ex EXCEPT !.steps = @ \cup {"txfetch"}, !.pc = "import",
                                !.log = @ \o <<"Importing transactions">>]
                ELSE [ex EXCEPT !.steps = @ \cup {"txfetch"}, !.pc = "account",
                                !.idx = ex.idx + 1,
                                !.log = @ \o <<"No transactions in date range">>]
       \/ Throw("txfetch")
    /\ UNCHANGED <<store, env, categoryTree, investec, serverBudget, localBudget, prevRun, coordVars, txVars>>

\* const actualTxs = rawTxs.map(transformTransaction).filter(t => t.date);
\* const result = await actual.importTransactions(matchedAccount.id, actualTxs);
\* count = added + updated; totalImported += count
ExImport ==
    /\ ex.pc = "import"
    /\ LET batch == TransformAll(WithAccountId(investec.txs[ex.idx],
                                               investec.accounts[ex.idx].accountId))
           r     == ImportTransactions(localBudget.txs, ex.matched, batch)
       IN  \/ /\ localBudget' = [localBudget EXCEPT !.txs = r.txs]
              /\ ex' = [ex EXCEPT !.steps = @ \cup {"import"}, !.pc = "account", !.idx = ex.idx + 1,
                                  !.totalImported = ex.totalImported + r.added + r.updated,
                                  !.added = ex.added + r.added,
                                  !.counts = Append(@, r.added + r.updated),
                                  !.log = Append(@, IF r.added + r.updated > 0
                                                    THEN "Added/Updated transactions"
                                                    ELSE "No new transactions"),
                                  !.imports = ex.imports \cup {ex.idx},
                                  !.keys = ex.keys \cup {batch[k].imported_id : k \in 1..Len(batch)}]
           \/ /\ Throw("import")
              /\ UNCHANGED localBudget
    /\ UNCHANGED <<store, env, categoryTree, investec, serverBudget, prevRun, coordVars, txVars>>

\* A variant of the push that syncs whether or not anything was imported.
ExPushAlways ==
    /\ ex.pc = "account"
    /\ ex.idx > Len(investec.accounts)
    /\ \/ /\ serverBudget' = localBudget
          /\ ex' = [ex EXCEPT !.steps = @ \cup {"push"}, !.pc = "finally", !.pushed = TRUE]
       \/ /\ Throw("push")
          /\ UNCHANGED serverBudget
    /\ UNCHANGED <<store, env, categoryTree, investec, localBudget, prevRun, coordVars, txVars>>

\* A variant of the push that leaves the server as it is.
ExPushSkipsSync ==
    /\ ex.pc = "account"
    /\ ex.idx > Len(investec.accounts)
    /\ ex' = [ex EXCEPT !.pc = "finally"]
    /\ UNCHANGED <<store, env, categoryTree, investec, serverBudget, localBudget, prevRun, coordVars, txVars>>

\* A variant of the push that logs the summary ahead of actual.sync().
ExPushSummaryFirst ==
    /\ ex.pc = "account"
    /\ ex.idx > Len(investec.accounts)
    /\ IF ex.totalImported > 0
       THEN \/ /\ serverBudget' = localBudget
               /\ ex' = [ex EXCEPT !.steps = @ \cup {"push"}, !.pc = "finally", !.pushed = TRUE,
                                   !.reported = ex.totalImported,
                                   !.log = @ \o <<"Sync Complete. Total",
                                                  "Pushing changes to server">>]
            \/ /\ ThrowAfter("push", "push", <<"Sync Complete. Total">>)
               /\ UNCHANGED serverBudget
       ELSE /\ ex' = [ex EXCEPT !.pc = "finally",
                                !.log = @ \o <<"Sync Complete. No data changes">>]
            /\ UNCHANGED serverBudget
    /\ UNCHANGED <<store, env, categoryTree, investec, localBudget, prevRun, coordVars, txVars>>

\* after the loop: if (totalImported > 0) { await actual.sync(); ... }
ExPush ==
    /\ ex.pc = "account"
    /\ ex.idx > Len(investec.accounts)
    /\ IF ex.totalImported > 0
       THEN \/ /\ serverBudget' = localBudget
               /\ ex' = [ex EXCEPT !.steps = @ \cup {"push"}, !.pc = "finally", !.pushed = TRUE,
                                   !.reported = ex.totalImported,
                                   !.log = @ \o <<"Pushing changes to server",
                                                  "Sync Complete. Total">>]
            \/ /\ ThrowAfter("push", "push", <<"Pushing changes to server">>)
               /\ UNCHANGED serverBudget
       ELSE /\ ex' = [ex EXCEPT !.pc = "finally",
                                !.log = @ \o <<"Sync Complete. No data changes">>]
            /\ UNCHANGED serverBudget
    /\ UNCHANGED <<store, env, categoryTree, investec, localBudget, prevRun, coordVars, txVars>>

\* finally { try { await actual.shutdown(); } catch(e) {} process.exit(0); }
ExFinally ==
    /\ ex.pc = "finally"
    /\ ex' = [ex EXCEPT !.pc = "exited", !.shutdown = TRUE, !.code = 0]
    /\ UNCHANGED <<store, env, categoryTree, investec, serverBudget, localBudget, prevRun, coordVars, txVars>>

\* catch (e) { logP(ERROR); process.send(result); process.exit(1); }
\* process.exit ends the process at once: the finally block does not run.
ExCatchExit ==
    /\ ex.pc = "catch"
    /\ ex' = [ex EXCEPT !.pc = "exited", !.code = 1, !.message = ex.error,
                       !.log = Append(@, "ERROR")]
    /\ UNCHANGED <<store, env, categoryTree, investec, serverBudget, localBudget, prevRun, coordVars, txVars>>

ExecNext ==
    \/ ExStart
    \/ ExValidate
    \/ ExNetCheck
    \/ ExCleanDir
    \/ ExInit
    \/ ExDownload
    \/ ExCategories
    \/ ExFetchInvestec
    \/ ExAccount
    \/ ExTxFetch
    \/ ExImport
    \/ ExPush
    \/ ExFinally
    \/ ExCatchExit

InitExec == CoordInit /\ TxIdle /\ ExecInit

SpecExec == InitExec /\ [][ExecNext]_vars

(***************************************************************************)
(* The executions of a profile whose files change: saves of the profile    *)
(* and of the category tree, tests of the connection, profiles that lack a *)
(* field or hold a password                                                *)
(***************************************************************************)

RequiredFields ==
    {"investecClientId", "investecSecretId", "investecApiKey", "actualServerUrl",
     "actualBudgetId"}

ProfileWithPassword == [SyncProfile EXCEPT !.actualPassword = "pw"]
ProfileDisabled == [SyncProfile EXCEPT !.enabled = FALSE]
ProfileWithout(field) == [SyncProfile EXCEPT ![field] = ""]

ProfileCases ==
    {SyncProfile, ProfileWithPassword, ProfileDisabled} \cup
    {ProfileWithout(f) : f \in RequiredFields}

\* the category trees saved: none, and one group with one category
AttachTrees == {<<>>, TreeFood}

\* POST /api/test/actual: spawnWorker('test-actual', testPayload) with the
\* profile of the request body
ExStartTest ==
    /\ ex.pc \in {"none", "exited"}
    /\ prevRun' = Ended(ex)
    /\ ex' = [FreshRun EXCEPT !.log = <<"Worker started">>]
    /\ \E p \in ProfileCases : env' = [action |-> "test-actual", payload |-> p]
    /\ categoryTree' = <<>>
    /\ UNCHANGED <<store, investec, serverBudget, localBudget, coordVars, txVars>>

\* the profiles saved: another password, another budget id, a field emptied
ProfileOtherBudget == [SyncProfile EXCEPT !.actualBudgetId = "budget-2"]
ProfileOwnCategories == [SyncProfile EXCEPT !.categories = OwnCategories(TreeFoodBills)]
SavedProfiles ==
    {SyncProfile, ProfileWithPassword, ProfileOtherBudget, ProfileWithout("actualServerUrl"),
     ProfileOwnCategories}

\* POST /api/config: saveConfig(req.body) writes config.json
ExSaveProfile ==
    /\ \E p \in SavedProfiles : store' = [store EXCEPT !.profile = p]
    /\ store' # store
    /\ UNCHANGED <<env, categoryTree, investec, serverBudget, localBudget, ex, prevRun,
                   coordVars, txVars>>

\* POST /api/categories: saveCategories(req.body) writes categories.json
ExSaveCategories ==
    /\ \E t \in AttachTrees : store' = [store EXCEPT !.categories = t]
    /\ store' # store
    /\ UNCHANGED <<env, categoryTree, investec, serverBudget, localBudget, ex, prevRun,
                   coordVars, txVars>>

AttachNext ==
    \/ ExecNext
    \/ ExStartTest

AttachInit ==
    /\ CoordInit
    /\ TxIdle
    /\ store \in [profile : ProfileCases, categories : AttachTrees]
    /\ env = NoEnv
    /\ categoryTree = <<>>
    /\ investec = [accounts |-> <<InvAccCheque>>, txs |-> << <<TxGroceries>> >>]
    /\ serverBudget = NoBudget
    /\ localBudget = NoBudget
    /\ ex = NoRun
    /\ prevRun = NoRun

SpecAttach == AttachInit /\ [][AttachNext]_vars

SnapshotNext ==
    \/ ExecNext
    \/ ExSaveProfile
    \/ ExSaveCategories

SnapshotInit ==
    /\ CoordInit
    /\ TxIdle
    /\ store = [profile |-> SyncProfile, categories |-> TreeFood]
    /\ env = NoEnv
    /\ categoryTree = <<>>
    /\ investec = [accounts |-> <<InvAccCheque>>, txs |-> << <<TxGroceries>> >>]
    /\ serverBudget = NoBudget
    /\ localBudget = NoBudget
    /\ ex = NoRun
    /\ prevRun = NoRun

SpecSnapshot == SnapshotInit /\ [][SnapshotNext]_vars

(***************************************************************************)
(* Claims about one execution                                              *)
(***************************************************************************)

\* C2: on every exit path of an execution that initialised the ledger engine,
\* actual.shutdown has been called when the worker process has ended.
C2_ShutdownOnEveryExit ==
    (ex.pc = "exited" /\ ex.initialised) => ex.shutdown

\* the run ended with exit code 0 and no account was left out
CleanRun(r) == r.pc = "exited" /\ r.code = 0 /\ ~r.skipped

\* C4: when the previous execution of the profile completed without a failure
\* (exit code 0, no account skipped), an execution against the same provider
\* data adds no transaction to the ledger: its added total stays 0; and when
\* it completes too, it has given the transactions the same imported_ids.
C4_SecondRunAddsNothing ==
    /\ CleanRun(prevRun) => ex.added = 0
    /\ (CleanRun(prevRun) /\ CleanRun(ex)) => ex.keys = prevRun.keys

\* C4 witness: the first run added transactions and pushed them; the second
\* run imported the same transactions again, completed, and added none.
C4_Witness ==
    /\ CleanRun(prevRun) /\ prevRun.added > 0 /\ prevRun.pushed
    /\ CleanRun(ex) /\ ex.imports # {} /\ ex.added = 0
    /\ ex.keys = prevRun.keys /\ Cardinality(ex.keys) > 1

\* C7: within one execution no two distinct provider accounts import into the
\* same ledger account.
C7_OneLedgerAccountPerProviderAccount ==
    \A a, b \in ex.imports : a # b => ex.bindings[a] # ex.bindings[b]

\* C8: when the transaction fetch or the import of one account throws, every
\* later account of the execution is still reached before the worker ends.
C8_FailureOfOneAccountContained ==
    (ex.pc = "exited" /\ ex.failedAt \in {"txfetch", "import"})
        => Len(ex.bindings) = Len(investec.accounts)


\* the transactions the provider holds for account k, as the worker reads them
ProviderTxs(k) == WithAccountId(investec.txs[k], investec.accounts[k].accountId)

\* C13: of the transactions of an account whose import call was made, exactly
\* those with a usable date were passed to the call: a transaction without any
\* date is left out and every other one is passed; no undated transaction
\* reaches the ledger.
C13_UndatedTransactionSkipped ==
    /\ \A k \in ex.imports : \A j \in 1..Len(ProviderTxs(k)) :
          (TxDate(ProviderTxs(k)[j]) # <<>>) <=> (ImportId(ProviderTxs(k)[j]) \in ex.keys)
    /\ \A x \in localBudget.txs : x.tx.date # <<>>

\* C13 witness: account 1 holds a dated and an undated transaction; the run
\* completed with exit code 0, both accounts were imported, the dated
\* transaction of account 1 was passed and the undated one was not.
C13_Witness ==
    /\ CleanRun(ex) /\ ex.imports = {1, 2}
    /\ Len(investec.txs[1]) = 2
    /\ TxDate(ProviderTxs(1)[1]) # <<>> /\ ImportId(ProviderTxs(1)[1]) \in ex.keys
    /\ TxDate(ProviderTxs(1)[2]) = <<>> /\ ImportId(ProviderTxs(1)[2]) \notin ex.keys
    /\ ex.added = 2


(***************************************************************************)
(* Executions over provider accounts of every naming case                  *)
(***************************************************************************)

\* reference names: absent, blank, a nickname (also with blanks around it), the
\* holder's name (also with a blank behind it)
ReferenceNames ==
    { <<>>, <<" "," ">>, NickCheque, <<" ">> \o NickSavings \o <<" ">>, HolderName, HolderName \o <<" ">> }

\* One provider account of every naming case, with one transaction.
NamingCases ==
    { [accounts |-> << [accountId |-> AccountIdA, accountNumber |-> an, accountName |-> hn,
                        referenceName |-> rn, productName |-> pn] >>,
       txs |-> << <<TxGroceries>> >>] :
        an \in {<<"1","0","0","1","1","2","3","4">>, <<"2","3","4">>}, hn \in {HolderName, <<" ">> \o HolderName},
        rn \in ReferenceNames, pn \in {ProductPBA, ProductCard} }

NamingInit ==
    /\ CoordInit
    /\ TxIdle
    /\ categoryTree = <<>>
    /\ StoreInit
    /\ investec \in NamingCases
    /\ serverBudget = NoBudget
    /\ localBudget = NoBudget
    /\ ex = NoRun
    /\ prevRun = NoRun

SpecNaming == NamingInit /\ [][ExecNext]_vars

\* the reference name is present, non-blank and, trimmed, not the holder's name
HasOwnNickname(a) ==
    /\ a.referenceName # <<>>
    /\ \E k \in 1..Len(a.referenceName) : a.referenceName[k] # " "
    /\ Trim(a.referenceName) # Trim(a.accountName)

\* C14: the ledger account a provider account is matched with or created as
\* bears the (trimmed) reference name when that is present, non-blank and
\* different after trimming from the holder name, and "{product name} {last 4
\* digits of the account number}" in every other case.
C14_MatchName ==
    \A k \in 1..Len(ex.bindings) : ex.bindings[k] # 0 =>
        LET a == investec.accounts[k]
            n == localBudget.accounts[ex.bindings[k]].name
        IN  IF HasOwnNickname(a)
            THEN n = Trim(a.referenceName)
            ELSE n = a.productName \o <<" ">> \o SliceLast(a.accountNumber, 4)

\* C14 witness: reference "Sean's Cheque" with holder "Mr S Gordon": the
\* account was created as "Sean's Cheque".
C14_Witness ==
    /\ Len(ex.bindings) = 1 /\ ex.bindings[1] = 1
    /\ investec.accounts[1].referenceName = <<"S","e","a","n","'","s"," ","C","h","e","q","u","e">>
    /\ investec.accounts[1].accountName = <<"M","r"," ","S"," ","G","o","r","d","o","n">>
    /\ localBudget.accounts[1].name = <<"S","e","a","n","'","s"," ","C","h","e","q","u","e">>


(***************************************************************************)
(* Executions against budgets whose account names contain, or equal but    *)
(* for case and blanks, the names of the provider accounts                 *)
(***************************************************************************)

LedgerOldSavings == [id |-> 1, name |-> <<"O","l","d"," ","S","A","V","I","N","G","S"," ","p","o","t">>, type |-> "checking", offbudget |-> FALSE]
LedgerSavings    == [id |-> 2, name |-> <<" ","s","a","v","i","n","g","s"," ">>, type |-> "checking", offbudget |-> FALSE]
LedgerOldCheque  == [id |-> 1, name |-> <<"S","e","a","n","'","s"," ","C","h","e","q","u","e"," ","(","c","l","o","s","e","d",")">>, type |-> "checking", offbudget |-> FALSE]

MatchBudgets ==
    { [accounts |-> <<LedgerOldSavings>>, txs |-> {}, groups |-> <<>>, cats |-> <<>>],
      [accounts |-> <<LedgerOldSavings, LedgerSavings>>, txs |-> {}, groups |-> <<>>, cats |-> <<>>],
      [accounts |-> <<LedgerOldCheque>>, txs |-> {}, groups |-> <<>>, cats |-> <<>>] }

MatchingInit ==
    /\ CoordInit
    /\ TxIdle
    /\ categoryTree = <<>>
    /\ StoreInit
    /\ investec \in InvestecData
    /\ serverBudget \in MatchBudgets
    /\ localBudget = NoBudget
    /\ ex = NoRun
    /\ prevRun = NoRun

SpecMatching == MatchingInit /\ [][ExecNext]_vars

\* the ledger account's name equals the name but for case and blanks around it
ExactMatch(acc, name) == Trim(ToLower(acc.name)) = ToLower(name)

\* the ledger account's name contains the name, case aside
ContainsMatch(acc, name) == Includes(ToLower(acc.name), ToLower(name))

\* the step of the account loop for account ex.idx is taken
AccountStep == ex.pc = "account" /\ ex.idx <= Len(investec.accounts) /\ ex' # ex

\* a matching ledger account is there already
Found ==
    \E j \in 1..Len(ex.actualAccounts) :
        ExactMatch(ex.actualAccounts[j], UniqueName(investec.accounts[ex.idx]))

\* the first of the accounts read that matches exactly
FirstExact ==
    CHOOSE j \in 1..Len(ex.actualAccounts) :
        /\ ExactMatch(ex.actualAccounts[j], UniqueName(investec.accounts[ex.idx]))
        /\ \A i \in 1..(j - 1) :
              ~ExactMatch(ex.actualAccounts[i], UniqueName(investec.accounts[ex.idx]))

\* one of the accounts read contains the match name
FoundContaining ==
    \E j \in 1..Len(ex.actualAccounts) :
        ContainsMatch(ex.actualAccounts[j], UniqueName(investec.accounts[ex.idx]))

\* the step skips the provider account: the loop is at the next account and
\* nothing was fetched or imported
Skipped ==
    /\ ex'.bindings = Append(ex.bindings, 0)
    /\ ex'.pc = "account" /\ ex'.idx = ex.idx + 1
    /\ ex'.imports = ex.imports /\ ex'.totalImported = ex.totalImported

CreatedAndBound ==
    LET a == investec.accounts[ex.idx]
        n == Len(localBudget.accounts)
    IN  /\ Len(localBudget'.accounts) = n + 1
        /\ SubSeq(localBudget'.accounts, 1, n) = localBudget.accounts
        /\ localBudget'.accounts[n + 1].name = UniqueName(a)
        /\ localBudget'.accounts[n + 1].offbudget = FALSE
        /\ localBudget'.accounts[n + 1].type =
              (IF ContainsMatch([name |-> a.productName], <<"c","r","e","d","i","t">>)
               THEN "credit" ELSE "checking")
        /\ ex'.bindings = Append(ex.bindings, localBudget'.accounts[n + 1].id)
        /\ ex'.pc = "txfetch"

SkippedNeverImported ==
    \A k \in 1..Len(ex.bindings) : ex.bindings[k] = 0 => k \notin ex.imports

\* C16: when no ledger account matches, one ledger account is created for the
\* provider account, on-budget, of type credit when the product name contains
\* "credit" in any case and checking otherwise, and the provider account is
\* bound to it; when the creation step fails (createAccount itself, in which
\* case no account is created, or the reading of the accounts that follows
\* it) the provider account is skipped: nothing is fetched or imported for it
\* and the loop goes on with the next account.
C16_CreateOrSkip ==
    /\ [][AccountStep =>
            IF Found THEN localBudget' = localBudget /\ ex'.created = ex.created
            ELSE \/ CreatedAndBound
                 \/ Skipped /\ localBudget' = localBudget
                 \/ Skipped /\ Len(localBudget'.accounts) = Len(localBudget.accounts) + 1
                            /\ localBudget'.accounts[Len(localBudget.accounts) + 1].name
                                  = UniqueName(investec.accounts[ex.idx])]_vars
    /\ []SkippedNeverImported

\* C16 witness: the creation of the first account (the credit card) failed;
\* the second account was created as a checking account and imported, and the
\* run ended with exit code 0.
C16_Witness ==
    /\ ex.pc = "exited" /\ ex.code = 0 /\ ex.skipped
    /\ ex.bindings = <<0, 1>> /\ ex.imports = {2} /\ ex.created = {1}
    /\ investec.accounts[1] = InvAccCard
    /\ localBudget.accounts[1].type = "checking"
    /\ ex.added = 2 /\ ex.pushed


(***************************************************************************)
(* Executions with a category tree, against budgets that hold some, none   *)
(* or other category groups and categories                                 *)
(***************************************************************************)


\* no categories at all
BudgetBare == NoBudget
\* another group, with a category that bears the name of one of the tree
BudgetTransport ==
    [NoBudget EXCEPT !.groups = << [id |-> 1, name |-> "Transport"] >>,
                     !.cats = << [id |-> 1, name |-> "Fuel", group_id |-> 1],
                                 [id |-> 2, name |-> "Rent", group_id |-> 1] >>]
\* the group Food with Groceries in it, and a group whose name differs in case
BudgetFood ==
    [NoBudget EXCEPT !.groups = << [id |-> 1, name |-> "Food"], [id |-> 2, name |-> "bills"] >>,
                     !.cats = << [id |-> 1, name |-> "Groceries", group_id |-> 1] >>]

CategoryBudgets == {BudgetBare, BudgetTransport, BudgetFood}

CategoryInit ==
    /\ CoordInit
    /\ TxIdle
    /\ categoryTree \in CategoryTrees
    /\ StoreInit
    /\ investec = [accounts |-> <<InvAccCheque>>, txs |-> << <<TxGroceries>> >>]
    /\ serverBudget \in CategoryBudgets
    /\ localBudget = NoBudget
    /\ ex = NoRun
    /\ prevRun = NoRun

SpecCategories == CategoryInit /\ [][ExecNext]_vars



\* s is a prefix of t
IsPrefix(s, t) == Len(s) <= Len(t) /\ SubSeq(t, 1, Len(s)) = s

\* C17: category reconciliation only adds.  The step that runs it leaves every
\* group and category the budget held as it was (same id, name and group) and
\* issues no call but createCategoryGroup and createCategory; no other step of
\* the worker changes a group or a category of the downloaded budget, and the
\* push leaves those the server held as they were.
C17_AdditiveOnly ==
    [][ /\ ex.pc = "categories" =>
              /\ IsPrefix(localBudget.groups, localBudget'.groups)
              /\ IsPrefix(localBudget.cats, localBudget'.cats)
              /\ \A i \in 1..Len(ex'.catOps) :
                    ex'.catOps[i].op \in {"createCategoryGroup", "createCategory"}
        /\ ex.pc \notin {"categories", "clean", "download"} =>
              /\ localBudget'.groups = localBudget.groups
              /\ localBudget'.cats = localBudget.cats
        /\ IsPrefix(serverBudget.groups, serverBudget'.groups)
        /\ IsPrefix(serverBudget.cats, serverBudget'.cats) ]_vars

\* C17 witness: the budget held the group Transport with Fuel and Rent; after
\* the reconciliation of the tree {Food: [Groceries, Dining], Bills: [Rent]}
\* they are as before, and Food, Bills and their categories were added.
C17_Witness ==
    /\ ex.pc = "fetch"
    /\ serverBudget = BudgetTransport
    /\ categoryTree = TreeFoodBills
    /\ SubSeq(localBudget.groups, 1, 1) = BudgetTransport.groups
    /\ SubSeq(localBudget.cats, 1, 2) = BudgetTransport.cats
    /\ Len(localBudget.groups) = 3 /\ Len(localBudget.cats) = 5
    /\ localBudget.cats[5] = [id |-> 5, name |-> "Rent", group_id |-> 3]


\* no try block of the category step ended in its catch
NoneCaught == \A i \in 1..Len(ex.catOps) : ~ex.catOps[i].caught

\* the id of the group of that name in a list of groups (0: none)
GroupIdIn(groups, groupName) ==
    IF FindGroup(groups, groupName) = 0 THEN 0 ELSE groups[FindGroup(groups, groupName)].id

\* the nodes of the tree the budget the server held lacked
MissingGroups == {g \in GroupNames(categoryTree) : FindGroup(serverBudget.groups, g) = 0}
MissingCategories ==
    {p \in GroupNames(categoryTree) \X NodeNames(categoryTree) :
        /\ \E i \in 1..Len(categoryTree) :
              /\ categoryTree[i].name = p[1]
              /\ \E j \in 1..Len(categoryTree[i].cats) : categoryTree[i].cats[j] = p[2]
        /\ \/ p[1] \in MissingGroups
           \/ ~CategoryExists(serverBudget.cats, GroupIdIn(serverBudget.groups, p[1]), p[2])}

\* the write calls issued for a group, and for a category of a group
GroupCalls(g) ==
    {k \in 1..Len(ex.catOps) :
        ex.catOps[k].op = "createCategoryGroup" /\ ex.catOps[k].name = g}
CategoryCalls(g, c) ==
    {k \in 1..Len(ex.catOps) :
        /\ ex.catOps[k].op = "createCategory" /\ ex.catOps[k].name = c
        /\ ex.catOps[k].group_id = GroupIdIn(localBudget.groups, g)}

\* C18: category reconciliation creates exactly the missing nodes and is
\* idempotent.  When no create call failed, the step issued one createCategoryGroup
\* for each group of the tree the budget lacked, one createCategory (with the id
\* of its group) for each category the budget lacked in that group, and nothing
\* else; against a budget lacking Food and Groceries the tree {Food: [Groceries]}
\* gives one group, then one category inside the new group; and syncCategories
\* with the same tree on the budget that results issues no call.
C18_ExactlyMissingIdempotent ==
    (ex.pc = "fetch" /\ NoneCaught) =>
        /\ \A g \in GroupNames(categoryTree) :
              Cardinality(GroupCalls(g)) = IF g \in MissingGroups THEN 1 ELSE 0
        /\ \A g \in GroupNames(categoryTree), c \in NodeNames(categoryTree) :
              Cardinality(CategoryCalls(g, c)) =
                  IF <<g, c>> \in MissingCategories THEN 1 ELSE 0
        /\ Len(ex.catOps) = Cardinality(MissingGroups) + Cardinality(MissingCategories)
        /\ \A p \in MissingCategories :
              CategoryExists(localBudget.cats, GroupIdIn(localBudget.groups, p[1]), p[2])
        /\ (categoryTree = TreeFood /\ "Food" \in MissingGroups) =>
              LET gid == Len(serverBudget.groups) + 1
              IN  /\ ex.catOps = << CreateGroupOp("Food", FALSE),
                                    CreateCategoryOp("Groceries", gid, FALSE) >>
                  /\ localBudget.groups =
                        Append(serverBudget.groups, [id |-> gid, name |-> "Food"])
                  /\ localBudget.cats =
                        Append(serverBudget.cats,
                               [id |-> Len(serverBudget.cats) + 1, name |-> "Groceries",
                                group_id |-> gid])
        /\ syncCategories(localBudget, categoryTree, {}, {}) =
              [groups |-> localBudget.groups, cats |-> localBudget.cats, ops |-> <<>>]

\* C18 witness: the budget held Transport with Fuel and Rent and neither Food
\* nor Groceries; the tree {Food: [Groceries]} was reconciled without a failure
\* and two calls were issued.
C18_Witness ==
    /\ ex.pc = "fetch" /\ NoneCaught
    /\ categoryTree = TreeFood
    /\ serverBudget = BudgetTransport
    /\ Len(ex.catOps) = 2
    /\ Len(localBudget.groups) = 2 /\ Len(localBudget.cats) = 3


\* the try block around a create call for that node ended in its catch
GroupCaught(g) == \E k \in GroupCalls(g) : ex.catOps[k].caught
CategoryCaught(gid, c) ==
    \E k \in 1..Len(ex.catOps) :
        /\ ex.catOps[k].op = "createCategory" /\ ex.catOps[k].caught
        /\ ex.catOps[k].name = c /\ ex.catOps[k].group_id = gid

\* every group of the tree was found, created or tried, and every category of
\* a group the loop held was found, created or tried
WholeTreeAttempted ==
    \A i \in 1..Len(categoryTree) :
        LET g == categoryTree[i].name
        IN  /\ FindGroup(localBudget.groups, g) # 0 \/ GroupCaught(g)
            /\ ~GroupCaught(g) =>
                  \A j \in 1..Len(categoryTree[i].cats) :
                      \/ CategoryExists(localBudget.cats, GroupIdIn(localBudget.groups, g),
                                        categoryTree[i].cats[j])
                      \/ CategoryCaught(GroupIdIn(localBudget.groups, g),
                                        categoryTree[i].cats[j])

\* C19: a failure to create a group or a category never aborts the
\* reconciliation.  A category step that issued any call hands over to the
\* fetch of the provider's accounts; the worker's failure at the category step
\* is never one that follows a create call; and after the step every group of
\* the tree and every category of a group in hand was found, created or tried.
C19_CreateFailureSkipped ==
    /\ [][(ex.pc = "categories" /\ ex'.catOps # <<>>) => ex'.pc = "fetch"]_vars
    /\ [](ex.failedAt = "categories" => ex.catOps = <<>>)
    /\ [](ex.pc = "fetch" => WholeTreeAttempted)

\* C19 witness: creating the group Food failed; Bills and its category Rent
\* were created behind it, and the sync went on, imported a transaction and
\* ended with code 0.
C19_Witness ==
    /\ categoryTree = TreeFoodBills
    /\ ex.pc = "exited" /\ ex.code = 0
    /\ ex.catOps # <<>> /\ ex.catOps[1] = CreateGroupOp("Food", TRUE)
    /\ FindGroup(localBudget.groups, "Food") = 0
    /\ FindGroup(localBudget.groups, "Bills") # 0
    /\ CategoryExists(localBudget.cats, GroupIdIn(localBudget.groups, "Bills"), "Rent")
    /\ ex.totalImported > 0


\* the execution failed at the probe; what then holds of it, and of its steps
ProbeFailed == ex.failedAt = "netcheck"
NothingBehindProbe ==
    /\ ex.steps = {"validate", "netcheck"}
    /\ ex.pc \in {"catch", "exited"}
    /\ ~ex.initialised /\ ~ex.shutdown /\ ~ex.pushed
    /\ ex.catOps = <<>> /\ ex.bindings = <<>> /\ ex.created = {}
    /\ ex.imports = {} /\ ex.totalImported = 0
    /\ (ex.pc = "exited") => (ex.code = 1 /\ ex.message = NetworkErrorMessage)
ProbeFailureStep ==
    /\ ProbeFailed' => (localBudget' = localBudget /\ serverBudget' = serverBudget)
    /\ (ProbeFailed /\ ex.pc = "catch") => (ex'.pc = "exited" /\ ex'.code = 1)

\* C20: when the probe of the server fails, the execution ends in failure with
\* the "Network Error: Cannot reach ..." result and nothing behind the probe
\* takes place: the execution has entered the validation and the probe only
\* (no reset of the cache directory, no init, no download, no call to the
\* provider, no category, account or transaction written, no push), the
\* budgets are as they were, and the worker leaves with code 1.
C20_ProbeFailureStopsExecution ==
    [](ProbeFailed => NothingBehindProbe) /\ [][ProbeFailureStep]_vars

\* C20 witness: an execution imported and pushed; the next one failed at the
\* probe and left with code 1, the cache directory still holding the budget.
C20_Witness ==
    /\ prevRun.pushed
    /\ ex.pc = "exited" /\ ex.failedAt = "netcheck" /\ ex.code = 1
    /\ ex.message = NetworkErrorMessage
    /\ localBudget # NoBudget /\ localBudget = serverBudget


\* C21: the download of the budget is called at most twice in an execution;
\* a second call is made only after a first that failed with an error of
\* encryption or password, and only when the profile holds a password; when
\* the second call fails the execution is aborted, and no step other than the
\* download step ever calls it.
C21_AtMostTwoDownloads ==
    /\ [](/\ Len(ex.downloads) <= 2
          /\ Len(ex.downloads) = 2 =>
                /\ ~ex.downloads[1].ok /\ "encryption" \in ex.downloads[1].err
                /\ env.payload.actualPassword # ""
          /\ (Len(ex.downloads) = 2 /\ ~ex.downloads[2].ok) =>
                (ex.failedAt = "download" /\ ex.pc \in {"catch", "exited"}))
    /\ [][ex'.downloads # ex.downloads =>
            (ex.pc = "download" \/ ex'.downloads = <<>>)]_vars

\* C21 witness: the first download failed on encryption, the retry failed
\* too, and the worker left with code 1 and the message Decryption Failed.
C21_Witness ==
    /\ ex.pc = "exited" /\ ex.code = 1
    /\ Len(ex.downloads) = 2 /\ ~ex.downloads[2].ok
    /\ ex.message = DecryptionFailedMessage


BudgetNotFound ==
    /\ ex.downloads # <<>>
    /\ ~ex.downloads[1].ok
    /\ "not found" \in ex.downloads[1].err /\ "encryption" \notin ex.downloads[1].err

\* the steps behind the download
StepsBehindDownload == {"categories", "fetch", "account", "txfetch", "import", "push"}

\* C23: when the download fails because the budget file is not on the server,
\* there is no second download call, the execution is aborted and its result
\* is the failure that carries the SERVER ERROR message with what to do, and
\* no category, account or transaction step runs.
C23_BudgetNotFoundAborts ==
    BudgetNotFound =>
        /\ Len(ex.downloads) = 1
        /\ ex.failedAt = "download" /\ ex.pc \in {"catch", "exited"}
        /\ ex.error = BudgetNotFoundMessage
        /\ ex.pc = "exited" => (ex.code = 1 /\ ex.message = BudgetNotFoundMessage)
        /\ ex.steps \cap StepsBehindDownload = {}
        /\ ex.catOps = <<>> /\ ex.bindings = <<>> /\ ex.created = {}
        /\ ex.imports = {} /\ ~ex.pushed

\* C23 witness: a profile with a password met a missing budget file: one
\* download call, and the worker left with code 1 and the SERVER ERROR message.
C23_Witness ==
    /\ BudgetNotFound
    /\ env.payload.actualPassword # ""
    /\ ex.pc = "exited" /\ ex.code = 1
    /\ ex.message = BudgetNotFoundMessage
    /\ Len(ex.downloads) = 1


\* the step that calls actual.sync(), and what holds of an execution that
\* has called it
PushStep == "push" \in ex'.steps /\ "push" \notin ex.steps
AfterPush ==
    /\ ex.pc \in {"finally", "catch", "exited"}
    /\ ex.idx > Len(investec.accounts)
    /\ ex.totalImported > 0

\* C24: the push runs at most once in an execution, behind the imports of all
\* accounts, and only when the imports added or updated something; without
\* that the execution pushes nothing, leaves the server's budget as it was and
\* ends with code 0.  The server's budget changes with the push only.
C24_PushOnceAfterImports ==
    /\ [][/\ PushStep =>
              /\ ex.pc = "account" /\ ex.idx > Len(investec.accounts)
              /\ ex.totalImported > 0
              /\ ex'.pc \in {"finally", "catch"}
          /\ serverBudget' # serverBudget => (PushStep /\ ex'.pushed)
          /\ ex'.pushed => (ex.pushed \/ PushStep)]_vars
    /\ []("push" \in ex.steps => AfterPush)
    /\ []((ex.pc = "exited" /\ ex.code = 0 /\ env.action = "sync") =>
             (ex.pushed <=> ex.totalImported > 0))

\* C24 witness: two accounts were imported, the push followed and the worker
\* left with code 0, the server holding what the cache directory holds.
C24_Witness ==
    /\ ex.pc = "exited" /\ ex.code = 0
    /\ ex.pushed /\ Cardinality(ex.imports) >= 2
    /\ serverBudget = localBudget


\* the two forms of the summary line, and how many of them a log holds
SummaryLines == {"Sync Complete. Total", "Sync Complete. No data changes"}
SummaryCount(log) == Cardinality({i \in 1..Len(log) : log[i] \in SummaryLines})

RECURSIVE SumSeq(_)
SumSeq(q) == IF q = <<>> THEN 0 ELSE Head(q) + SumSeq(Tail(q))

\* C25: a sync that ends with code 0 has logged one summary line, "Sync
\* Complete ...", and it is the last line of its log; the total it reports is
\* the sum of added + updated over the import calls of the execution (the line
\* without a total stands for a sum of 0); an execution that fails has logged
\* no summary line, and no log ever holds two.
C25_OneSummaryLine ==
    /\ SummaryCount(ex.log) <= 1
    /\ (ex.pc = "exited" /\ ex.code = 0 /\ env.action = "sync") =>
          /\ SummaryCount(ex.log) = 1
          /\ ex.log[Len(ex.log)] \in SummaryLines
          /\ ex.log[Len(ex.log)] = "Sync Complete. Total" =>
                (ex.reported = SumSeq(ex.counts) /\ ex.reported > 0)
          /\ ex.log[Len(ex.log)] = "Sync Complete. No data changes" =>
                SumSeq(ex.counts) = 0
    /\ ex.failedAt # "none" => SummaryCount(ex.log) = 0

\* C25 witness: two import calls added transactions; the summary with their
\* total is the last line of the log of a sync that ended with code 0.
C25_Witness ==
    /\ ex.pc = "exited" /\ ex.code = 0
    /\ Len(ex.counts) = 2 /\ ex.counts[1] > 0 /\ ex.counts[2] > 0
    /\ ex.log[Len(ex.log)] = "Sync Complete. Total"
    /\ ex.reported = ex.counts[1] + ex.counts[2]


\* C26: in every sync or test of the connection the cache directory of the
\* profile is deleted and created anew before the engine is initialised, and
\* the engine is never initialised in an execution whose reset did not
\* complete.
C26_ResetBeforeInit ==
    "init" \in ex.steps => ("clean" \in ex.steps /\ ex.reset)


\* the steps that call the server of the ledger or the provider
NetworkSteps == {"netcheck", "download", "fetch", "txfetch", "push"}

\* C27: a sync of a profile that lacks a required field (client id, secret
\* id, api key, server address, budget id) makes no network call of any kind:
\* no probe, no download, no request to the provider.
C27_MissingFieldFailsFast ==
    (env.action = "sync" /\ \E f \in RequiredFields : env.payload[f] = "") =>
        ex.steps \cap NetworkSteps = {}


(***************************************************************************)
(* Claims about the profiles the coordinator runs                          *)
(***************************************************************************)

\* the profile is not in config.profiles, or is not enabled
NotEnabled(p) == ~config[p].present \/ ~config[p].enabled

\* what runSync logs for such a profile: "Cannot sync: Profile ... not found",
\* "Cannot sync: Profile ... is disabled"
CannotSync(p) == IF ~config[p].present THEN "notfound" ELSE "disabled"

\* the trigger forked nothing and left processingProfiles as it was
NothingStarted == workers' = workers /\ processingProfiles' = processingProfiles

C28_Refused ==
    \A p \in Profiles :
        /\ (NotEnabled(p) /\ SyncTriggered(p)) =>
              /\ NothingStarted
              /\ lastTrigger'.outcome =
                    IF p \in processingProfiles THEN "busy" ELSE CannotSync(p)
        /\ ForkedFor(p) # {} => ~NotEnabled(p)

\* C28: a profile that is not enabled, or is not in the configuration, never
\* starts a sync: it holds no cron task, no sync worker is ever forked for it,
\* and a manual trigger for it forks nothing and leaves processingProfiles as
\* it was; the trigger logs the error "Cannot sync" unless an execution of the
\* profile that began before it was disabled is still in flight, and then it
\* is answered busy.
C28_DisabledNeverStarts ==
    /\ [](\A p \in Profiles : NotEnabled(p) => p \notin cronTasks)
    /\ [][C28_Refused]_vars

\* C28 witness: p1 is disabled and idle, and a manual trigger for it has just
\* been refused with the error; p2 lacks its credentials.
C28_Witness ==
    /\ config["p1"] = DisabledProfile
    /\ lastTrigger = [source |-> "manual", id |-> "p1", outcome |-> "disabled"]
    /\ "p1" \notin processingProfiles
    /\ \A i \in WorkerIds : ~(Exists(workers[i]) /\ workers[i].id = "p1")

\* C28 as the specification words it: every manual trigger for such a profile
\* logs the error.
C28_AlwaysLogsError ==
    [][\A p \in Profiles :
          (NotEnabled(p) /\ SyncTriggered(p)) =>
              (NothingStarted /\ lastTrigger'.outcome = CannotSync(p))]_vars


\* C29: at startup and after every configuration save the active cron tasks
\* are exactly one per profile that is present, enabled and has a valid
\* non-empty schedule; the tasks of the configuration before are stopped, so a
\* cron tick only ever fires for such a profile of the configuration in force,
\* and a profile with an empty schedule is triggered only manually.
C29_CronTasksFollowConfig ==
    /\ [](cronTasks = CronTasksOf(config))
    /\ [][lastTrigger'.source = "cron" =>
              /\ lastTrigger'.id \in CronTasksOf(config)
              /\ config[lastTrigger'.id] \notin {ManualProfile, DisabledProfile,
                                                  AbsentProfile}]_vars

\* C29 witness: a save gave p1 an empty schedule; its task of the startup
\* configuration is gone, p2 keeps one, and p1 was then started by hand.
C29_Witness ==
    /\ config["p1"] = ManualProfile
    /\ cronTasks = {"p2"}
    /\ lastTrigger = [source |-> "manual", id |-> "p1", outcome |-> "started"]


(***************************************************************************)
(* Claims about the snapshot an execution works on                         *)
(***************************************************************************)

\* an execution has been triggered and its worker has not ended
ExecutionInFlight == ex.pc \notin {"none", "exited"}

\* C30: an execution works on the snapshot of the profile and of the taxonomy
\* taken at its trigger: while it is in flight no step, a save of config.json
\* or categories.json included, changes its payload or its taxonomy; what it
\* has checked and the password it has given the engine are those of the
\* payload; and a step of the execution never changes the stored
\* configuration.
C30_WorksOnSnapshot ==
    /\ [](ExecutionInFlight =>
            /\ "validate" \in ex.steps =>
                  env.payload.actualServerUrl # "" /\ env.payload.actualBudgetId # ""
            /\ ex.initialised => ex.initPassword = (env.payload.actualPassword # ""))
    /\ [][/\ ExecutionInFlight => (env' = env /\ categoryTree' = categoryTree)
          /\ ex' # ex => store' = store]_vars

\* C30 witness: in flight, after the engine was initialised without a password,
\* with a configuration saved since the trigger that has a password and a
\* taxonomy saved since that is empty.
C30_Witness ==
    /\ ExecutionInFlight
    /\ "download" \in ex.steps
    /\ env.payload = SyncProfile /\ ~ex.initPassword
    /\ store.profile = ProfileWithPassword
    /\ categoryTree = TreeFood /\ store.categories = <<>>


(***************************************************************************)
(* Claims about the order of the steps of an execution                     *)
(***************************************************************************)

\* the place of a step in the sync route of the worker: the checks, the
\* session (reset, init, download), the categories, the provider's accounts,
\* the loop over the accounts, the push
StepRank(step) ==
    CASE step \in {"validate", "netcheck"} -> 1
      [] step \in {"clean", "init", "download"} -> 2
      [] step = "categories" -> 3
      [] step = "fetch" -> 4
      [] step \in {"account", "txfetch", "import"} -> 5
      [] step = "push" -> 6

\* the budget was downloaded: the last attempt succeeded
LedgerAttached ==
    Len(ex.downloads) > 0 /\ ex.downloads[Len(ex.downloads)].ok

\* a step of an execution under way enters only steps that come no earlier
\* than the steps entered before
StepsInOrder ==
    ex.pc \notin {"none", "exited"} =>
        \A s \in ex'.steps \ ex.steps : \A t \in ex.steps : StepRank(t) <= StepRank(s)

\* the provider's token or account request threw
DiscoveryFailed == ex.failedAt = "fetch"

\* C31: the steps of a sync execution occur only in the order connectivity
\* check, session, categories, provider accounts, per-account import, push; no
\* provider request is made before the budget is downloaded, no account is
\* created and no transaction imported before the categories step has
\* finished, and when the provider's authentication or account request fails
\* the execution ends with no account created, no import and no push.
C31_StepsInOrder ==
    /\ [](({"fetch", "txfetch"} \cap ex.steps # {}) => LedgerAttached)
    /\ []((ex.created # {} \/ ex.imports # {} \/ "account" \in ex.steps) =>
            ("categories" \in ex.steps /\ ex.failedAt # "categories"))
    /\ [](DiscoveryFailed =>
            /\ ex.pc \in {"catch", "exited"}
            /\ ex.created = {} /\ ex.imports = {} /\ ~ex.pushed
            /\ {"account", "txfetch", "import", "push"} \cap ex.steps = {})
    /\ [][StepsInOrder]_vars

\* C31 witness: an execution that went through every step and pushed, after a
\* predecessor that ended at the provider's account request.
C31_Witness ==
    /\ ex.pc = "exited" /\ ex.pushed
    /\ ex.steps = {"validate", "netcheck", "clean", "init", "download", "categories",
                   "fetch", "account", "txfetch", "import", "push"}
    /\ prevRun.pc = "exited" /\ prevRun.code = 1 /\ ~prevRun.pushed


(***************************************************************************)
(* Claims about what the coordinator records of an execution               *)
(***************************************************************************)

\* the worker ended in failure: it threw (the catch reports the failure and
\* exits with code 1) or its process died with a non-zero exit code
EndedInFailure(w) == w.pc = "catch" \/ (w.pc = "exited" /\ w.code # 0)

\* this step takes p out of processingProfiles
SlotReleased(p) == p \in processingProfiles /\ p \notin processingProfiles'

\* C32: whenever the sync worker of an admitted execution ended in failure (a
\* reported failure result, or a non-zero exit without a result message), an
\* error-level entry about it is in the log buffer when its profile leaves
\* processingProfiles.
C32_FailureLoggedBeforeRelease ==
    [][\A p \in Profiles :
          SlotReleased(p) =>
              \A i \in InFlight(p) :
                  EndedInFailure(workers[i]) => workers[i].errLog = "handled"]_vars


\* the sync worker processes of p that have been forked and have not exited
AliveFor(p) ==
    {i \in WorkerIds : /\ Alive(workers[i]) /\ workers[i].action = "sync"
                       /\ workers[i].id = p}

\* C33: while a sync worker process of profile p is alive, p is in
\* processingProfiles and no second sync worker process of p is alive, also
\* between the worker's result message and the exit of its process.
C33_SlotHeldWhileAlive ==
    \A p \in Profiles :
        /\ AliveFor(p) # {} => p \in processingProfiles
        /\ Cardinality(AliveFor(p)) <= 1


(***************************************************************************)
(* Claims about what an execution pushes                                   *)
(***************************************************************************)

\* the execution wrote to the local copy of the budget: a createCategoryGroup
\* or createCategory call returned, or an account was created
WroteLocally ==
    \/ ex.created # {}
    \/ \E k \in 1..Len(ex.catOps) : ~ex.catOps[k].caught

\* C34: an execution that created a category group, a category or an account
\* in the local copy has pushed to the server when it has ended, and the
\* server then holds those groups, categories and accounts, also when no
\* transaction was added or updated.
C34_WritesPushed ==
    (ex.pc = "exited" /\ WroteLocally) =>
        /\ ex.pushed
        /\ serverBudget.groups = localBudget.groups
        /\ serverBudget.cats = localBudget.cats
        /\ serverBudget.accounts = localBudget.accounts


(***************************************************************************)
(* Claims about the taxonomy of an execution                               *)
(***************************************************************************)

\* this step is runSync forking the worker of a sync
SyncForked == ex.pc \in {"none", "exited"} /\ ex'.pc = "validate" /\ env'.action = "sync"

\* C35: the taxonomy an execution reconciles is the category tree of the
\* profile itself when the profile has one, and the process-wide tree of
\* categories.json only when it has none.
C35_OwnTaxonomyFirst ==
    [][SyncForked =>
          categoryTree' = IF store.profile.categories.present
                          THEN store.profile.categories.tree
                          ELSE store.categories]_vars


(***************************************************************************)
(* Claims about the date of a transaction                                  *)
(***************************************************************************)

\* the date fields of t in the order they are consulted
DateFields(t) == <<t.transactionDate, t.postingDate, t.actionDate, t.valueDate>>

\* d is s without its time of day: s up to the first 'T', or all of s
StrippedOf(d, s) ==
    /\ Len(d) <= Len(s) /\ d = SubSeq(s, 1, Len(d))
    /\ \A k \in 1..Len(d) : d[k] # "T"
    /\ Len(d) < Len(s) => s[Len(d) + 1] = "T"

\* the date inside the key: what stands between the first and the second colon
KeyDate(t, out) ==
    SubSeq(out.imported_id, Len(t.accountId) + 2, Len(t.accountId) + 1 + Len(out.date))

\* C36: the date of a transformed transaction is the first present of the
\* transaction date, the posting date, the action date and the value date (a
\* later field only when every field before it is absent), without its time
\* of day (everything from 'T' on); it is absent only when all four are; and
\* the key carries that same stripped date behind the account id.
C36_CanonicalDate ==
    \A i \in 1..Len(actualTxs) :
        LET t == rawTxs[i]
            out == actualTxs[i]
            present == {k \in 1..4 : DateFields(t)[k] # <<>>}
        IN  /\ present = {} => out.date = <<>>
            /\ present # {} =>
                  /\ \E k \in present :
                        /\ \A j \in present : k <= j
                        /\ StrippedOf(out.date, DateFields(t)[k])
                  /\ KeyDate(t, out) = out.date
                  /\ out.imported_id[Len(t.accountId) + 1] = ":"
                  /\ out.imported_id[Len(t.accountId) + 2 + Len(out.date)] = ":"

\* C36 witness: a transaction with no transaction or posting date, an action
\* date with a time and a value date; the day of the action date was taken.
C36_Witness ==
    /\ Len(actualTxs) = 1
    /\ rawTxs[1].transactionDate = <<>> /\ rawTxs[1].postingDate = <<>>
    /\ rawTxs[1].actionDate = Date0303T /\ rawTxs[1].valueDate = Date0304T
    /\ actualTxs[1].date = Date0303


(***************************************************************************)
(* Claims about the import calls of an account                             *)
(***************************************************************************)

\* the calls one behind the other
RECURSIVE Flatten(_)
Flatten(calls) == IF calls = <<>> THEN <<>> ELSE Head(calls) \o Flatten(Tail(calls))

\* C37: the transactions of an account go to the ledger import in batches of
\* bounded size: no call of importTransactions carries more than BATCH_SIZE
\* transactions, and the calls together carry every transformed transaction
\* that has a date exactly once, in order.
C37_BoundedBatches ==
    importCalls # <<>> =>
        /\ \A c \in 1..Len(importCalls) : Len(importCalls[c]) <= BATCH_SIZE
        /\ Flatten(importCalls) = TransformAll(rawTxs)


(***************************************************************************)
(* Claims about the log buffer                                             *)
(***************************************************************************)

\* the messages under way are those sent last, in the order they were sent
QueueInOrder ==
    /\ \A i \in 1..Len(ipc.queue) - 1 : ipc.queue[i + 1].k = ipc.queue[i].k + 1
    /\ ipc.queue # <<>> => ipc.queue[Len(ipc.queue)].k = ipc.sent

\* the buffer changes only by one entry appended at its tail, with the oldest
\* entry dropped when the buffer was full
AppendedAtTail ==
    logs' # logs =>
        /\ logs' # <<>>
        /\ logs' = Append(IF Len(logs) < MAX_LOGS THEN logs ELSE Tail(logs),
                          logs'[Len(logs')])

\* an entry of the worker gets into the buffer only as its oldest message
\* under way, which is taken off the channel
WorkerEntryHandled ==
    (logs' # logs /\ logs' # <<>> /\ logs'[Len(logs')].from = "worker") =>
        /\ ipc.queue # <<>>
        /\ logs'[Len(logs')].k = Head(ipc.queue).k
        /\ logs'[Len(logs')].type = Head(ipc.queue).level
        /\ ipc'.queue = Tail(ipc.queue)

\* C38: the log buffer never holds more than MAX_LOGS entries; an entry is
\* only appended at the tail and only the oldest is dropped, so the entries
\* kept are the latest ones in their order of arrival; every level is info,
\* success or error; and the log messages of a worker get into the buffer only
\* when the coordinator handles them, in the order the worker sent them.
C38_BoundedOrderedLog ==
    /\ [](/\ Len(logs) <= MAX_LOGS
          /\ \A i \in 1..Len(logs) - 1 : logs[i + 1].at = logs[i].at + 1
          /\ \A i \in 1..Len(logs) : logs[i].type \in LogLevels
          /\ QueueInOrder)
    /\ [][AppendedAtTail /\ WorkerEntryHandled]_vars

\* C38 witness: the buffer is full, its two oldest entries have been dropped,
\* and it holds entries of the worker and of the coordinator.
C38_Witness ==
    /\ Len(logs) = MAX_LOGS
    /\ logs[1].at = 3 /\ logs[1].from = "worker"
    /\ logs[MAX_LOGS].from = "server"


(***************************************************************************)
(* Executions over a taxonomy that lists a category twice                  *)
(***************************************************************************)

\* categories.json with the same name twice in the list of one group (the
\* group names are the keys of an object and cannot repeat)
TreeFoodTwice == << [name |-> "Food", cats |-> <<"Groceries", "Groceries">>] >>

DuplicateInit ==
    /\ CoordInit
    /\ TxIdle
    /\ categoryTree \in {TreeFoodTwice, TreeFoodBills}
    /\ StoreInit
    /\ investec = [accounts |-> <<InvAccCheque>>, txs |-> << <<TxGroceries>> >>]
    /\ serverBudget \in CategoryBudgets
    /\ localBudget = NoBudget
    /\ ex = NoRun
    /\ prevRun = NoRun

SpecDuplicates == DuplicateInit /\ [][ExecNext]_vars

\* C39: within one run the category step issues at most one create call for a
\* group name and at most one for a category name in a group, also when the
\* tree lists a name twice within a group or the node was created earlier in
\* the run.
C39_AtMostOneCreate ==
    \A i, j \in 1..Len(ex.catOps) :
        i < j => ~( /\ ex.catOps[i].op = ex.catOps[j].op
                    /\ ex.catOps[i].name = ex.catOps[j].name
                    /\ ex.catOps[i].group_id = ex.catOps[j].group_id )


(***************************************************************************)
(* The Config line of the worker, for passwords of every length            *)
(***************************************************************************)

\* Bound of the model: the passwords have up to MaxPassLen characters.
MaxPassLen == 5

\* characters that occur nowhere else in the line
PassChars == {"x", "y"}

\* the passwords: none, and every string over PassChars up to MaxPassLen
Passwords == UNION { [1..n -> PassChars] : n \in 0..MaxPassLen }

ServerUrlChars == <<"h","t","t","p","s",":","/","/","a","c","t","u","a","l","/">>
BudgetIdChars  == <<"0","a","1","b","2","c","3","d","-","4","e","5","f">>
SecretIdChars  == <<"s","3","c","r","3","t","I","d">>
ApiKeyChars    == <<"k","3","y","K","3","y">>

\* the payload of the worker, its strings character by character
MaskPayload(pw) ==
    [ actualServerUrl |-> ServerUrlChars, actualBudgetId |-> BudgetIdChars,
      actualPassword |-> pw, investecClientId |-> <<"c","l","i","e","n","t">>,
      investecSecretId |-> SecretIdChars, investecApiKey |-> ApiKeyChars ]

\* rawUrl.replace(/\/$/, '')
StripSlash(u) == IF u # <<>> /\ u[Len(u)] = "/" THEN SubSeq(u, 1, Len(u) - 1) ELSE u

\* A variant of the mask that shows nothing of the password.
MaskedPassStarsOnly(password) ==
    IF password # <<>> THEN <<"*","*","*">> ELSE <<"(","n","o","n","e",")">>

\* password ? `${password.substring(0,2)}***${password.slice(-2)}` : '(none)'
MaskedPass(password) ==
    IF password # <<>>
    THEN Substring0(password, 2) \o <<"*","*","*">> \o SliceLast(password, 2)
    ELSE <<"(","n","o","n","e",")">>

\* `Config: URL=${serverUrl} | ID=${budgetId.substring(0,8)}... | Pass=${maskedPass}`
ConfigLine(payload) ==
    <<"C","o","n","f","i","g",":"," ","U","R","L","=">> \o Trim(StripSlash(payload.actualServerUrl))
      \o <<" ","|"," ","I","D","=">> \o Substring0(Trim(payload.actualBudgetId), 8)
      \o <<".",".","."," ","|"," ","P","a","s","s","=">> \o MaskedPass(Trim(payload.actualPassword))

\* a worker forked for a sync, with its payload in WORKER_PAYLOAD
MaskInit ==
    /\ CoordInit
    /\ TxIdle
    /\ \E pw \in Passwords : env = [action |-> "sync", payload |-> MaskPayload(pw)]
    /\ store = [profile |-> SyncProfile, categories |-> <<>>]
    /\ categoryTree = <<>>
    /\ investec = [accounts |-> <<>>, txs |-> <<>>]
    /\ serverBudget = NoBudget
    /\ localBudget = NoBudget
    /\ ex = NoRun
    /\ prevRun = NoRun

\* worker: logP(`Config: ...`, 'info') -> process.send({ type: 'log', ... })
LogConfigLine ==
    /\ ipc.sent = 0
    /\ ipc' = [queue |-> << [k |-> 1, level |-> "info", message |-> ConfigLine(env.payload)] >>,
               sent |-> 1]
    /\ UNCHANGED <<logs, config, cronTasks, processingProfiles, workers, lastTrigger,
                   txVars, execVars>>

\* coordinator: addLog(msg.message, msg.level)
StoreLogLine ==
    /\ ipc.queue # <<>>
    /\ logs' = addLog(logs, [at |-> NextAt, from |-> "worker", k |-> Head(ipc.queue).k,
                             type |-> Head(ipc.queue).level,
                             message |-> Head(ipc.queue).message])
    /\ ipc' = [ipc EXCEPT !.queue = Tail(@)]
    /\ UNCHANGED <<config, cronTasks, processingProfiles, workers, lastTrigger,
                   txVars, execVars>>

MaskNext == LogConfigLine \/ StoreLogLine

SpecMask == MaskInit /\ [][MaskNext]_vars

\* the secret is in the line from its first to its last character
ShownInFull(line, secret) == secret # <<>> /\ Includes(line, secret)

\* C40: no log line of an execution holds a secret of the profile in full:
\* not the secret id, not the api key, and not the password, however short
\* the password is.
C40_NoSecretInFull ==
    \A i \in 1..Len(logs) :
        /\ ~ShownInFull(logs[i].message, Trim(env.payload.actualPassword))
        /\ ~ShownInFull(logs[i].message, env.payload.investecSecretId)
        /\ ~ShownInFull(logs[i].message, env.payload.investecApiKey)

=============================================================================
